---------------------------- MODULE Spec2Model ----------------------------
(***************************************************************************)
(* Model of the hand-rolled WebSocket layer of WS-Server-Client-Hub:       *)
(*   src/WS_Server.py         WebSocketServer        (impl = "WS_Server")  *)
(*   src/simple_ws_server.py  SimpleWebSocketServer  (impl = "simple_ws_server") *)
(*   src/simple_ws_client.py  SimpleWebSocketClient  (impl = "simple_ws_client") *)
(* Bytes are integers 0..255, byte strings are sequences of bytes.  Every  *)
(* transport socket is a pair of byte streams; a recv returns any nonempty *)
(* prefix of what the peer has written and not yet been read.              *)
(***************************************************************************)
EXTENDS Integers, Sequences, FiniteSets, TLC

(***************************************************************************)
(* Bounds of the model.                                                    *)
(***************************************************************************)
\* Bytes of frames the peer writes in a run of a server with a single
\* connection.
MaxWire == 7

\* Bytes of frames the peers write, summed over the connections, in a run
\* of a server with several connections, and in a run of the client (a main
\* thread and a receive thread).
SharedWire == 4

\* Bytes of frames the peer writes in a run of a server whose peer is a
\* SimpleWebSocketClient: two send_message frames of one character.
ClientWire == 14

\* Send calls the client makes on its socket.
MaxOut == 3

\* Calls of JsonReader.read_json in a run.
MaxCalls == 4

\* Images the camera delivers in a run of the video relay.
MaxFrames == 3

\* The connections (accepted sockets) of a server; the client owns "c1".
Conns == {"c1", "c2"}

(***************************************************************************)
(* Protocol constants.                                                     *)
(***************************************************************************)
WS_OPCODE_CONTINUATION == 0
WS_OPCODE_TEXT == 1
WS_OPCODE_BINARY == 2
WS_OPCODE_CLOSE == 8
WS_OPCODE_PING == 9
WS_OPCODE_PONG == 10

\* Python's None, as an opcode and as a decode result.
None == -1

(***************************************************************************)
(* Byte arithmetic.                                                        *)
(***************************************************************************)
RECURSIVE XorBits(_, _, _)
XorBits(a, b, n) ==
    IF n = 0 THEN 0
    ELSE (((a % 2) + (b % 2)) % 2) + (2 * XorBits(a \div 2, b \div 2, n - 1))

\* payload_byte | mask_byte, an OR where the XOR belongs: the faulty
\* variant the masking property is compared against.
OrBits(a, b) ==
    LET RECURSIVE Or(_, _, _)
        Or(x, y, n) ==
            IF n = 0 THEN 0
            ELSE (IF (x % 2) + (y % 2) > 0 THEN 1 ELSE 0)
                 + (2 * Or(x \div 2, y \div 2, n - 1))
    IN  Or(a, b, 8)

\* payload_byte ^ mask_byte
Xor(a, b) == XorBits(a, b, 8)

\* struct.unpack('>H' / '>Q', bytes)[0]: big-endian unsigned.
RECURSIVE UnpackBE(_)
UnpackBE(bs) ==
    IF bs = <<>> THEN 0
    ELSE (256 * UnpackBE(SubSeq(bs, 1, Len(bs) - 1))) + bs[Len(bs)]

\* v as n little-endian bytes ('<H' / '<Q'): the faulty variant the length
\* encoding property is compared against.
RECURSIVE PackLE(_, _)
PackLE(v, n) ==
    IF n = 0 THEN <<>> ELSE <<v % 256>> \o PackLE(v \div 256, n - 1)

\* struct.pack('>H' / '>Q', v): v as n big-endian bytes.
RECURSIVE PackBE(_, _)
PackBE(v, n) ==
    IF n = 0 THEN <<>> ELSE Append(PackBE(v \div 256, n - 1), v % 256)

\* Python's data[a:b] with 0-based a, b (clipped to the end of data).
Slice(data, a, b) ==
    SubSeq(data, a + 1, IF b < Len(data) THEN b ELSE Len(data))

\* The XOR cycle: byte i is XOR-ed with key[i mod 4].
XorCycle(payload, key) ==
    [i \in 1..Len(payload) |-> Xor(payload[i], key[((i - 1) % 4) + 1])]

(***************************************************************************)
(* src/WS_Server.py: parse_websocket_frame, create_websocket_frame.        *)
(***************************************************************************)
NoFrame == [opcode |-> None, payload |-> <<>>]

parse_websocket_frame(data) ==
    IF Len(data) < 2 THEN NoFrame
    ELSE
    LET first_byte == data[1]
        opcode == first_byte % 16
        second_byte == data[2]
        masked == (second_byte \div 128) % 2
        len7 == second_byte % 128
        short == \/ len7 = 126 /\ Len(data) < 2 + 2
                 \/ len7 = 127 /\ Len(data) < 2 + 8
        payload_length ==
            IF len7 = 126 THEN UnpackBE(Slice(data, 2, 4))
            ELSE IF len7 = 127 THEN UnpackBE(Slice(data, 2, 10))
            ELSE len7
        offset0 == IF len7 = 126 THEN 4 ELSE IF len7 = 127 THEN 10 ELSE 2
        masking_key == Slice(data, offset0, offset0 + 4)
        offset == IF masked = 1 THEN offset0 + 4 ELSE offset0
        payload == Slice(data, offset, offset + payload_length)
    IN  IF short THEN NoFrame
        ELSE IF masked = 1 /\ Len(data) < offset0 + 4 THEN NoFrame
        ELSE IF Len(data) < offset + payload_length THEN NoFrame
        ELSE [opcode |-> opcode,
              payload |-> IF masked = 1 THEN XorCycle(payload, masking_key)
                          ELSE payload]

\* A length field with the 7-bit class one too wide (< 127 for < 126): the
\* faulty variant the round-trip property is compared against.
LengthField_wide(payload_length, maskbit) ==
    IF payload_length < 127 THEN <<maskbit + payload_length>>
    ELSE IF payload_length < 65536
         THEN <<maskbit + 126>> \o PackBE(payload_length, 2)
         ELSE <<maskbit + 127>> \o PackBE(payload_length, 8)

\* The length field create_websocket_frame writes after the first byte.
LengthField(payload_length, maskbit) ==
    IF payload_length < 126 THEN <<maskbit + payload_length>>
    ELSE IF payload_length < 65536
         THEN <<maskbit + 126>> \o PackBE(payload_length, 2)
         ELSE <<maskbit + 127>> \o PackBE(payload_length, 8)

create_websocket_frame(opcode, payload) ==
    <<128 + opcode>> \o LengthField(Len(payload), 0) \o payload

(***************************************************************************)
(* src/simple_ws_server.py and src/simple_ws_client.py: decode_frame,      *)
(* create_frame.                                                           *)
(***************************************************************************)
NoDict == [fin |-> None, opcode |-> None, payload |-> <<>>,
           payload_length |-> None]

\* SimpleWebSocketServer.decode_frame
server_decode_frame(data) ==
    IF Len(data) < 2 THEN NoDict
    ELSE
    LET first_byte == data[1]
        second_byte == data[2]
        masked == (second_byte \div 128) % 2
        len7 == second_byte % 128
        short == \/ len7 = 126 /\ Len(data) < 4
                 \/ len7 = 127 /\ Len(data) < 10
        payload_length ==
            IF len7 = 126 THEN UnpackBE(Slice(data, 2, 4))
            ELSE IF len7 = 127 THEN UnpackBE(Slice(data, 2, 10))
            ELSE len7
        header0 == IF len7 = 126 THEN 4 ELSE IF len7 = 127 THEN 10 ELSE 2
        mask == Slice(data, header0, header0 + 4)
        header_length == IF masked = 1 THEN header0 + 4 ELSE header0
        payload == Slice(data, header_length, header_length + payload_length)
    IN  IF short THEN NoDict
        ELSE IF masked = 1 /\ Len(data) < header0 + 4 THEN NoDict
        ELSE IF Len(data) < header_length + payload_length THEN NoDict
        ELSE [fin |-> (first_byte \div 128) % 2,
              opcode |-> first_byte % 16,
              payload |-> IF masked = 1 THEN XorCycle(payload, mask)
                          ELSE payload,
              payload_length |-> payload_length]

\* SimpleWebSocketClient.decode_frame: the mask bit is read and not used.
client_decode_frame(data) ==
    IF Len(data) < 2 THEN NoDict
    ELSE
    LET first_byte == data[1]
        second_byte == data[2]
        len7 == second_byte % 128
        short == \/ len7 = 126 /\ Len(data) < 4
                 \/ len7 = 127 /\ Len(data) < 10
        payload_length ==
            IF len7 = 126 THEN UnpackBE(Slice(data, 2, 4))
            ELSE IF len7 = 127 THEN UnpackBE(Slice(data, 2, 10))
            ELSE len7
        header_length == IF len7 = 126 THEN 4 ELSE IF len7 = 127 THEN 10 ELSE 2
    IN  IF short THEN NoDict
        ELSE IF Len(data) < header_length + payload_length THEN NoDict
        ELSE [fin |-> (first_byte \div 128) % 2,
              opcode |-> first_byte % 16,
              payload |-> Slice(data, header_length,
                                header_length + payload_length),
              payload_length |-> payload_length]

\* A create_frame that writes the frame as the server does, unmasked: the
\* faulty variant the framing property is compared against.
create_frame_unmasked(payload, opcode, mask) ==
    <<128 + opcode>> \o LengthField(Len(payload), 0) \o payload

\* SimpleWebSocketClient.create_frame with the mask random.randint drew.
create_frame(payload, opcode, mask) ==
    <<128 + opcode>> \o LengthField(Len(payload), 128) \o mask
        \o XorCycle(payload, mask)

(***************************************************************************)
(* bytes.decode('utf-8'): TRUE iff the payload decodes (Python 3 rules).   *)
(***************************************************************************)
IsCont(b) == b >= 128 /\ b <= 191

RECURSIVE Utf8Ok(_)
Utf8Ok(bs) ==
    IF bs = <<>> THEN TRUE
    ELSE
    LET b == bs[1]
        n == Len(bs)
    IN  IF b < 128 THEN Utf8Ok(Tail(bs))
        ELSE IF b >= 194 /\ b <= 223
        THEN n >= 2 /\ IsCont(bs[2]) /\ Utf8Ok(SubSeq(bs, 3, n))
        ELSE IF b >= 224 /\ b <= 239
        THEN /\ n >= 3
             /\ IsCont(bs[2]) /\ IsCont(bs[3])
             /\ (b = 224 => bs[2] >= 160)
             /\ (b = 237 => bs[2] <= 159)
             /\ Utf8Ok(SubSeq(bs, 4, n))
        ELSE IF b >= 240 /\ b <= 244
        THEN /\ n >= 4
             /\ IsCont(bs[2]) /\ IsCont(bs[3]) /\ IsCont(bs[4])
             /\ (b = 240 => bs[2] >= 144)
             /\ (b = 244 => bs[2] <= 143)
             /\ Utf8Ok(SubSeq(bs, 5, n))
        ELSE FALSE


(***************************************************************************)
(* Handshake text.  A request is the sequence of its header lines; a line  *)
(* is its name, the number of spaces after the colon, and its value.       *)
(* hashlib.sha1 + base64 are kept abstract: the accept key is an injective *)
(* function of the key string.                                             *)
(***************************************************************************)
\* str.lower() on the header names the requests use.
Lower(name) ==
    CASE name = "Sec-WebSocket-Key" -> "sec-websocket-key"
      [] name = "SEC-WEBSOCKET-KEY" -> "sec-websocket-key"
      [] name = "Sec-WebSocket-Accept" -> "sec-websocket-accept"
      [] name = "Host" -> "host"
      [] OTHER -> name

\* A key string: `lead` leading spaces followed by `text`.
KeyStr(lead, text) == [lead |-> lead, text |-> text]

\* Python truthiness of a str: not empty.
Truthy(key) == key.lead > 0 \/ key.text # ""

\* create_websocket_accept_key / generate_accept_key
create_websocket_accept_key(websocket_key) == [accept_of |-> websocket_key]

\* Index of the first line that matches (hits[i] tells whether line i
\* does), 0 if none: the `for line in lines: if ...: break` scan.
FirstLine(hits) ==
    IF \E i \in DOMAIN hits : hits[i]
    THEN CHOOSE i \in DOMAIN hits : hits[i] /\ \A j \in 1..(i - 1) : ~hits[j]
    ELSE 0

\* A handshake without the `if not websocket_key` test, going on with an
\* empty key: the faulty variant the missing-key property is compared against.
WS_handshake_key_unchecked(request) == [found |-> TRUE, key |-> KeyStr(0, "")]

\* WebSocketServer.perform_websocket_handshake, from the request text to
\* its outcome: the key it found, or the failure.
WS_IsKeyLine(line) == Lower(line.name) = "sec-websocket-key"

WS_handshake_key(request) ==
    LET i == FirstLine([j \in DOMAIN request |-> WS_IsKeyLine(request[j])])
    IN  IF i = 0 THEN [found |-> FALSE, key |-> KeyStr(0, "")]
        ELSE LET k == KeyStr(0, request[i].value)   \* split(':', 1)[1].strip()
             IN  [found |-> Truthy(k), key |-> k]

\* SimpleWebSocketServer.perform_handshake: the header name is matched
\* case-sensitively and the line is split on ': ' (IndexError without it).
SS_IsKeyLine(line) == line.name = "Sec-WebSocket-Key"

SS_handshake_key(request) ==
    LET i == FirstLine([j \in DOMAIN request |-> SS_IsKeyLine(request[j])])
    IN  IF i = 0 THEN [found |-> FALSE, key |-> KeyStr(0, "")]
        ELSE IF request[i].spaces = 0
        THEN [found |-> FALSE, key |-> KeyStr(0, "")]      \* IndexError
        ELSE LET k == KeyStr(request[i].spaces - 1, request[i].value)
             IN  [found |-> Truthy(k), key |-> k]

(***************************************************************************)
(* What the peers send.                                                    *)
(***************************************************************************)
Line(name, spaces, value) == [name |-> name, spaces |-> spaces, value |-> value]

HostLine == Line("Host", 1, "h")

\* The key generate_websocket_key drew.
ClientKey == KeyStr(0, "k1")

\* SimpleWebSocketClient.create_handshake_request: the Host line and the
\* key line, "Sec-WebSocket-Key: " followed by the key.
create_handshake_request(websocket_key) ==
    <<HostLine, Line("Sec-WebSocket-Key", 1, websocket_key.text)>>

\* Handshake requests a peer may send to a server.
Requests ==
    { <<HostLine, Line("Sec-WebSocket-Key", 1, "k1")>>,
      <<HostLine, Line("sec-websocket-key", 1, "k1")>>,
      <<HostLine, Line("Sec-WebSocket-Key", 0, "k1")>>,
      <<HostLine>>,
      <<>> }

NoRequest == <<>>

\* The request holds no Sec-WebSocket-Key header, in any letter case.
NoKeyHeader(request) ==
    \A i \in DOMAIN request : Lower(request[i].name) # "sec-websocket-key"

\* Opcode and payload of the frames the peers send.
TestMessages ==
    { [opcode |-> WS_OPCODE_TEXT, payload |-> <<104>>],
      [opcode |-> WS_OPCODE_BINARY, payload |-> <<>>],
      [opcode |-> WS_OPCODE_PING, payload |-> <<112>>],
      [opcode |-> WS_OPCODE_PONG, payload |-> <<>>],
      [opcode |-> WS_OPCODE_CLOSE, payload |-> <<>>],
      [opcode |-> 3, payload |-> <<>>] }

\* The mask the sending client drew.
TestMask == <<1, 2, 3, 4>>

\* A frame on the wire with the message it carries.
Frame(m, bytes) == [opcode |-> m.opcode, payload |-> m.payload, bytes |-> bytes]

\* Frames a peer writes to a server: the Text frame masked, as
\* SimpleWebSocketClient.send_message builds it, the others unmasked (the
\* decoders take both).  ServerFrames are what a server writes to a client.
PlainClientFrames ==
    { Frame(m, IF m.opcode = WS_OPCODE_TEXT
               THEN create_frame(m.payload, m.opcode, TestMask)
               ELSE create_websocket_frame(m.opcode, m.payload)) :
        m \in TestMessages }
ServerFrames == { Frame(m, create_websocket_frame(m.opcode, m.payload)) :
                    m \in TestMessages }

\* Frames a SimpleWebSocketClient writes: send_message's Text frames and
\* disconnect's Close frame, built by create_frame.
SimpleClientFrames ==
    { Frame(m, create_frame(m.payload, m.opcode, TestMask)) :
        m \in { [opcode |-> WS_OPCODE_TEXT, payload |-> <<104>>],
                [opcode |-> WS_OPCODE_CLOSE, payload |-> <<>>] } }

ClientFrames == PlainClientFrames \cup SimpleClientFrames

(***************************************************************************)
(* State.                                                                  *)
(***************************************************************************)
VARIABLES
    impl,               \* the program that runs
    live,               \* the connections that are made in this run
    peer,               \* who is at the other end of a server's connections
    codec,              \* a frame taken through the codec functions alone
    json,               \* JsonReader.py: the global sock and where read_json is
    relay,              \* pic_transfer.py: frame, lock, and where its threads are
    running,            \* self.running
    listening,          \* the server socket is open
    pc,                 \* per connection: where its handler / receive thread is
    req,                \* per connection: the handshake text the peer sent
                        \* (the client's: the response it received)
    nokey,              \* per connection: that text had no Sec-WebSocket-Key header
    pending,            \* per connection: frames the peer wrote, not yet read to their end
    consumed,           \* per connection: bytes of the first pending frame already read
    rdpos,              \* per connection: bytes read from the socket so far
    last,               \* per connection: the frame dispatched latest
    ndisp,              \* per connection: frames dispatched so far
    out,                \* per connection: the send calls made on the socket
    closeCount,         \* per connection: close() calls made on the socket
    wired,              \* bytes of frames the peers have written
    connected_clients,  \* WS_Server.py: the global set
    clients,            \* simple_ws_server.py: self.clients (a list)
    stoppc,             \* where stop_server is
    snapshot,           \* stop_server: what is left of its copy self.clients[:]
    stopCalls,          \* stop_server calls begun
    connected,          \* simple_ws_client.py: self.connected
    mainpc              \* simple_ws_client.py: where the main thread is

vars == <<impl, live, peer, codec, json, relay, running, listening, pc, req, nokey, pending, consumed, rdpos,
          last, ndisp, out, closeCount, wired, connected_clients, clients,
          stoppc, snapshot, stopCalls, connected, mainpc>>

\* What is chosen when a run starts and never changes in it.
fixed == <<impl, live, peer, codec, json, relay>>

\* The variables of the read side of a connection.
readVars == <<pending, consumed, rdpos, last, ndisp>>
clientVars == <<connected, mainpc>>
stopVars == <<stoppc, snapshot, stopCalls>>

\* recv(4096) in WS_Server.py, recv(1024) in the simple server and client.
WS_RECV_SIZE == 4096
SIMPLE_RECV_SIZE == 1024

RECURSIVE Flatten(_)
Flatten(frames) ==
    IF frames = <<>> THEN <<>> ELSE Head(frames).bytes \o Flatten(Tail(frames))

\* The bytes the peer of c wrote that no recv has returned yet.
Unread(c) ==
    LET all == Flatten(pending[c])
    IN  SubSeq(all, consumed[c] + 1, Len(all))

Min(a, b) == IF a < b THEN a ELSE b

\* The most one recv(size) can return.
RecvLimit(c, size) == Min(size, Len(Unread(c)))

\* The bytes one recv returns: the first n unread bytes.
RecvData(c, n) == SubSeq(Unread(c), 1, n)

\* What is left pending once k bytes, counted from the start of the first
\* pending frame, have been read.
RECURSIVE DropRead(_, _)
DropRead(frames, k) ==
    IF frames = <<>> THEN [frames |-> <<>>, consumed |-> 0]
    ELSE IF k >= Len(Head(frames).bytes)
         THEN DropRead(Tail(frames), k - Len(Head(frames).bytes))
         ELSE [frames |-> frames, consumed |-> k]

\* A recv that leaves the bytes it returned on the socket (MSG_PEEK): the
\* faulty variant the arrival-order property is compared against.
RecvPeek(n) == 0

\* The bytes a recv that returned n bytes takes off the socket.
RecvAdvance(n) == n

\* A send call: what was written and whether the transport took it.
HttpResponse(accept_key, ok) ==
    [kind |-> "101", accept |-> accept_key, bytes |-> <<>>, ok |-> ok]
HttpRequest(key, ok) ==
    [kind |-> "GET", accept |-> create_websocket_accept_key(key),
     bytes |-> <<>>, ok |-> ok]
FrameWrite(bytes, ok) ==
    [kind |-> "frame", accept |-> create_websocket_accept_key(KeyStr(0, "")),
     bytes |-> bytes, ok |-> ok]

Dispatch(opcode, payload, at) ==
    [opcode |-> opcode, payload |-> payload, at |-> at]

NoDispatch == Dispatch(None, <<>>, 0)

\* Bytes of frames the peers may write in this run.
WireBudget ==
    IF peer = "simple_ws_client" THEN ClientWire
    ELSE IF Cardinality(live) > 1 \/ impl = "simple_ws_client" THEN SharedWire
    ELSE MaxWire

\* The state of `codec`: the frame (opcode, payload, the mask the client
\* draws), the encoder that wrote `wire`, whether `wire` was cut to a strict
\* prefix, the decoder that produced `result`.
CodecState(at, f, enc, wire, cut, dec, result) ==
    [at |-> at, opcode |-> f.opcode, payload |-> f.payload, mask |-> f.mask,
     enc |-> enc, wire |-> wire, cut |-> cut, dec |-> dec, result |-> result]

\* No frame is in the codec: the state of `codec` in a run of a program.
CodecOff ==
    CodecState("off", [opcode |-> None, payload |-> <<>>, mask |-> <<>>],
               "", <<>>, FALSE, "", NoFrame)

\* The state of `json`: where read_json is, the global sock (None, or the
\* socket it names), the sockets created so far, those whose descriptor is
\* open, those whose connection has failed or was closed by the peer, what
\* the latest read_json returned and why, and the calls made.
JsonState(at, sock, created, open, dead, ret, calls) ==
    [at |-> at, sock |-> sock, created |-> created, open |-> open,
     dead |-> dead, ret |-> ret, calls |-> calls]

\* JsonReader.py is not running.
JsonOff == JsonState("off", None, 0, {}, {}, "", 0)

\* The viewers of the video relay: one generate_frames() generator each.
Viewers == {"v1", "v2"}

\* The state of `relay`: the images published in the global frame so far
\* (0: frame is None), the thread that holds lock ("free": none), where
\* camera_thread is, and per viewer where its generator is and the image
\* its latest chunk was encoded from.
RelayState(frame, lock, cam, gen, jpeg) ==
    [frame |-> frame, lock |-> lock, cam |-> cam, gen |-> gen, jpeg |-> jpeg]

\* pic_transfer.py is not running.
RelayOff ==
    RelayState(0, "free", "off", [v \in Viewers |-> "off"], [v \in Viewers |-> 0])

Init ==
    /\ impl \in {"WS_Server", "simple_ws_server", "simple_ws_client"}
    /\ live \in IF impl = "simple_ws_client" THEN { {"c1"} }
                ELSE { {"c1"}, Conns }
    /\ peer \in IF impl # "simple_ws_client" /\ live = {"c1"}
                THEN {"any", "simple_ws_client"}
                ELSE {"any"}
    /\ codec = CodecOff
    /\ json = JsonOff
    /\ relay = RelayOff
    /\ running = (impl # "simple_ws_client")
    /\ listening = (impl # "simple_ws_client")
    /\ pc = [c \in Conns |-> "idle"]
    /\ req = [c \in Conns |-> NoRequest]
    /\ nokey = [c \in Conns |-> FALSE]
    /\ pending = [c \in Conns |-> <<>>]
    /\ consumed = [c \in Conns |-> 0]
    /\ rdpos = [c \in Conns |-> 0]
    /\ last = [c \in Conns |-> NoDispatch]
    /\ ndisp = [c \in Conns |-> 0]
    /\ out = [c \in Conns |-> <<>>]
    /\ closeCount = [c \in Conns |-> 0]
    /\ wired = 0
    /\ connected_clients = {}
    /\ clients = <<>>
    /\ stoppc = "idle"
    /\ snapshot = <<>>
    /\ stopCalls = 0
    /\ connected = FALSE
    /\ mainpc = "start"

(***************************************************************************)
(* The peer of a server connection: once it has the 101 response it writes *)
(* frames, one send each.                                                  *)
(***************************************************************************)
PeerSend(c, f) ==
    /\ impl \in {"WS_Server", "simple_ws_server"}
    /\ pc[c] \in {"register", "loop", "recv", "pong"}
    /\ f \in IF peer = "simple_ws_client" THEN SimpleClientFrames
              ELSE PlainClientFrames
    /\ wired + Len(f.bytes) <= WireBudget
    /\ wired' = wired + Len(f.bytes)
    /\ pending' = [pending EXCEPT ![c] = Append(@, f)]
    /\ UNCHANGED <<fixed, running, listening, pc, req, nokey, consumed, rdpos,
                   last, ndisp, out, closeCount, connected_clients, clients,
                   stopVars, clientVars>>

(***************************************************************************)
(* The accept loop (start_server) of both servers: a connection is         *)
(* accepted and its handler thread started.  The handshake text the peer   *)
(* sent is drawn here.                                                     *)
(***************************************************************************)
AcceptConn(c, r) ==
    /\ running /\ listening /\ stoppc = "idle"
    /\ c \in live
    /\ pc[c] = "idle"
    /\ peer = "simple_ws_client" => r = create_handshake_request(ClientKey)
    /\ pc' = [pc EXCEPT ![c] = "handshake"]
    /\ req' = [req EXCEPT ![c] = r]
    /\ nokey' = [nokey EXCEPT ![c] = NoKeyHeader(r)]
    /\ UNCHANGED <<fixed, running, listening, readVars, out, closeCount, wired,
                   connected_clients, clients, stopVars, clientVars>>

WS_start_server ==
    /\ impl = "WS_Server"
    /\ \E c \in Conns, r \in Requests : AcceptConn(c, r)

(***************************************************************************)
(* WebSocketServer.handle_client (src/WS_Server.py).                       *)
(***************************************************************************)
\* perform_websocket_handshake and the caller's test of its result.  io is
\* what the transport does: "ok", "recv_error" or "send_error".
WS_perform_websocket_handshake(c, io) ==
    /\ impl = "WS_Server"
    /\ pc[c] = "handshake"
    /\ LET h == WS_handshake_key(req[c])
           sends == io # "recv_error" /\ h.found
           success == sends /\ io = "ok"
       IN  /\ out' = [out EXCEPT ![c] =
                IF sends
                THEN Append(@, HttpResponse(create_websocket_accept_key(h.key),
                                            io = "ok"))
                ELSE @]
           /\ IF success
              THEN /\ pc' = [pc EXCEPT ![c] = "register"]
                   /\ UNCHANGED closeCount
              ELSE \* client_socket.close(); return  (the finally runs next)
                   /\ pc' = [pc EXCEPT ![c] = "unregister"]
                   /\ closeCount' = [closeCount EXCEPT ![c] = @ + 1]
    /\ req' = [req EXCEPT ![c] = NoRequest]
    /\ UNCHANGED <<fixed, running, listening, nokey, readVars, wired,
                   connected_clients, clients, stopVars, clientVars>>

WS_register_client(c) ==
    /\ impl = "WS_Server"
    /\ pc[c] = "register"
    /\ connected_clients' = connected_clients \cup {c}
    /\ pc' = [pc EXCEPT ![c] = "loop"]
    /\ UNCHANGED <<fixed, running, listening, req, nokey, readVars, out,
                   closeCount, wired, clients, stopVars, clientVars>>

\* while self.running: ... client_socket.recv(4096) is entered.  On a socket
\* already closed the call raises at once and the loop breaks.
WS_loop_test(c) ==
    /\ impl = "WS_Server"
    /\ pc[c] = "loop"
    /\ pc' = [pc EXCEPT ![c] =
            IF running /\ closeCount[c] = 0 THEN "recv" ELSE "unregister"]
    /\ UNCHANGED <<fixed, running, listening, req, nokey, readVars, out,
                   closeCount, wired, connected_clients, clients, stopVars,
                   clientVars>>

\* A dispatch without the break on Close: the faulty variant the Close
\* property is compared against.
WS_after_dispatch_no_break(opcode) ==
    IF opcode = WS_OPCODE_PING THEN "pong" ELSE "loop"

\* Where the loop goes after a frame with this opcode.
WS_after_dispatch(opcode) ==
    IF opcode = WS_OPCODE_PING THEN "pong"
    ELSE IF opcode = WS_OPCODE_CLOSE THEN "unregister"
    ELSE "loop"

\* The read side after recv returned the n bytes `data` and the loop body
\* decoded them into f (opcode None: nothing decoded).
ReadStep(c, n, opcode, payload) ==
    LET d == DropRead(pending[c], consumed[c] + RecvAdvance(n))
    IN  /\ pending' = [pending EXCEPT ![c] = d.frames]
        /\ consumed' = [consumed EXCEPT ![c] = d.consumed]
        /\ rdpos' = [rdpos EXCEPT ![c] = @ + RecvAdvance(n)]
        /\ IF opcode = None
           THEN UNCHANGED <<last, ndisp>>
           ELSE /\ last' = [last EXCEPT ![c] =
                        Dispatch(opcode, payload, rdpos[c] + 1)]
                /\ ndisp' = [ndisp EXCEPT ![c] = @ + 1]

\* One iteration of the loop on n bytes of data: parse, dispatch by opcode.
WS_handle_data(c, n) ==
    /\ impl = "WS_Server"
    /\ pc[c] = "recv"
    /\ n >= 1 /\ n <= RecvLimit(c, WS_RECV_SIZE)
    /\ LET f == parse_websocket_frame(RecvData(c, n))
       IN  /\ ReadStep(c, n, f.opcode, f.payload)
           /\ pc' = [pc EXCEPT ![c] =
                IF f.opcode = None
                THEN "loop"     \* "Invalid WebSocket frame received": continue
                ELSE WS_after_dispatch(f.opcode)]
    /\ UNCHANGED <<fixed, running, listening, req, nokey, out, closeCount,
                   wired, connected_clients, clients, stopVars, clientVars>>

\* recv returns b'' (the peer closed after its last byte): break.
WS_recv_eof(c) ==
    /\ impl = "WS_Server"
    /\ pc[c] = "recv"
    /\ Unread(c) = <<>>
    /\ pc' = [pc EXCEPT ![c] = "unregister"]
    /\ UNCHANGED <<fixed, running, listening, req, nokey, readVars, out,
                   closeCount, wired, connected_clients, clients, stopVars,
                   clientVars>>

\* recv raises socket.error (peer reset): break.
WS_recv_error(c) ==
    /\ impl = "WS_Server"
    /\ pc[c] = "recv"
    /\ pc' = [pc EXCEPT ![c] = "unregister"]
    /\ UNCHANGED <<fixed, running, listening, req, nokey, readVars, out,
                   closeCount, wired, connected_clients, clients, stopVars,
                   clientVars>>

\* A Pong that drops the payload (send_pong's default b''): the faulty
\* variant the Ping property is compared against.
WS_pong_frame_empty(payload) == create_websocket_frame(WS_OPCODE_PONG, <<>>)

\* The frame send_pong builds for the payload of a Ping.
WS_pong_frame(payload) == create_websocket_frame(WS_OPCODE_PONG, payload)

\* send_pong(client_socket, payload); a failed send is logged and swallowed.
WS_send_pong(c, ok) ==
    /\ impl = "WS_Server"
    /\ pc[c] = "pong"
    /\ out' = [out EXCEPT ![c] =
            Append(@, FrameWrite(WS_pong_frame(last[c].payload), ok))]
    /\ pc' = [pc EXCEPT ![c] = "loop"]
    /\ UNCHANGED <<fixed, running, listening, req, nokey, readVars,
                   closeCount, wired, connected_clients, clients, stopVars,
                   clientVars>>

\* finally: self.unregister_client(...)
WS_unregister_client(c) ==
    /\ impl = "WS_Server"
    /\ pc[c] = "unregister"
    /\ connected_clients' = connected_clients \ {c}
    /\ pc' = [pc EXCEPT ![c] = "close"]
    /\ UNCHANGED <<fixed, running, listening, req, nokey, readVars, out,
                   closeCount, wired, clients, stopVars, clientVars>>

\* finally: client_socket.close()
WS_finally_close(c) ==
    /\ impl = "WS_Server"
    /\ pc[c] = "close"
    /\ closeCount' = [closeCount EXCEPT ![c] = @ + 1]
    /\ pc' = [pc EXCEPT ![c] = "done"]
    /\ UNCHANGED <<fixed, running, listening, req, nokey, readVars, out,
                   wired, connected_clients, clients, stopVars, clientVars>>

\* WebSocketServer.stop_server: running = False, the server socket closed.
WS_stop_server ==
    /\ impl = "WS_Server"
    /\ stoppc = "idle"
    /\ listening
    /\ running' = FALSE
    /\ listening' = FALSE
    /\ stoppc' = "returned"
    /\ stopCalls' = stopCalls + 1
    /\ UNCHANGED <<fixed, pc, req, nokey, readVars, out, closeCount, wired,
                   connected_clients, clients, snapshot, clientVars>>

WS_Next ==
    \/ WS_start_server
    \/ \E c \in Conns, io \in {"ok", "recv_error", "send_error"} :
            WS_perform_websocket_handshake(c, io)
    \/ \E c \in Conns : WS_register_client(c)
    \/ \E c \in Conns : WS_loop_test(c)
    \/ \E c \in Conns : \E n \in 1..RecvLimit(c, WS_RECV_SIZE) :
            WS_handle_data(c, n)
    \/ \E c \in Conns : WS_recv_eof(c)
    \/ \E c \in Conns : WS_recv_error(c)
    \/ \E c \in Conns, ok \in BOOLEAN : WS_send_pong(c, ok)
    \/ \E c \in Conns : WS_unregister_client(c)
    \/ \E c \in Conns : WS_finally_close(c)
    \/ WS_stop_server

(***************************************************************************)
(* SimpleWebSocketServer (src/simple_ws_server.py).                        *)
(***************************************************************************)
SS_start_server ==
    /\ impl = "simple_ws_server"
    /\ \E c \in Conns, r \in Requests : AcceptConn(c, r)

\* perform_handshake and the caller's test of its result.
SS_perform_handshake(c, io) ==
    /\ impl = "simple_ws_server"
    /\ pc[c] = "handshake"
    /\ LET h == SS_handshake_key(req[c])
           sends == io # "recv_error" /\ h.found
           success == sends /\ io = "ok"
       IN  /\ out' = [out EXCEPT ![c] =
                IF sends
                THEN Append(@, HttpResponse(create_websocket_accept_key(h.key),
                                            io = "ok"))
                ELSE @]
           /\ IF success
              THEN /\ pc' = [pc EXCEPT ![c] = "register"]
                   /\ UNCHANGED closeCount
              ELSE \* client_socket.close(); return  (the finally runs next)
                   /\ pc' = [pc EXCEPT ![c] = "finally_test"]
                   /\ closeCount' = [closeCount EXCEPT ![c] = @ + 1]
    /\ req' = [req EXCEPT ![c] = NoRequest]
    /\ UNCHANGED <<fixed, running, listening, nokey, readVars, wired,
                   connected_clients, clients, stopVars, clientVars>>

\* self.clients.append(client_socket)
SS_clients_append(c) ==
    /\ impl = "simple_ws_server"
    /\ pc[c] = "register"
    /\ clients' = Append(clients, c)
    /\ pc' = [pc EXCEPT ![c] = "loop"]
    /\ UNCHANGED <<fixed, running, listening, req, nokey, readVars, out,
                   closeCount, wired, connected_clients, stopVars, clientVars>>

\* while self.running: ... client_socket.recv(1024) is entered.
SS_loop_test(c) ==
    /\ impl = "simple_ws_server"
    /\ pc[c] = "loop"
    /\ pc' = [pc EXCEPT ![c] =
            IF running /\ closeCount[c] = 0 THEN "recv" ELSE "finally_test"]
    /\ UNCHANGED <<fixed, running, listening, req, nokey, readVars, out,
                   closeCount, wired, connected_clients, clients, stopVars,
                   clientVars>>

\* Where the loop goes after a decoded frame: Close breaks, a Text payload
\* that does not decode raises and breaks, everything else goes on.
SS_after_dispatch(opcode, payload) ==
    IF opcode = 8 THEN "finally_test"
    ELSE IF opcode = 1 /\ ~Utf8Ok(payload) THEN "finally_test"
    ELSE "loop"

SS_handle_data(c, n) ==
    /\ impl = "simple_ws_server"
    /\ pc[c] = "recv"
    /\ n >= 1 /\ n <= RecvLimit(c, SIMPLE_RECV_SIZE)
    /\ LET frame == server_decode_frame(RecvData(c, n))
       IN  /\ ReadStep(c, n, frame.opcode, frame.payload)
           /\ pc' = [pc EXCEPT ![c] =
                IF frame = NoDict THEN "loop"
                ELSE SS_after_dispatch(frame.opcode, frame.payload)]
    /\ UNCHANGED <<fixed, running, listening, req, nokey, out,
                   closeCount, wired, connected_clients, clients, stopVars,
                   clientVars>>

SS_recv_eof(c) ==
    /\ impl = "simple_ws_server"
    /\ pc[c] = "recv"
    /\ Unread(c) = <<>>
    /\ pc' = [pc EXCEPT ![c] = "finally_test"]
    /\ UNCHANGED <<fixed, running, listening, req, nokey, readVars, out,
                   closeCount, wired, connected_clients, clients, stopVars,
                   clientVars>>

SS_recv_error(c) ==
    /\ impl = "simple_ws_server"
    /\ pc[c] = "recv"
    /\ pc' = [pc EXCEPT ![c] = "finally_test"]
    /\ UNCHANGED <<fixed, running, listening, req, nokey, readVars, out,
                   closeCount, wired, connected_clients, clients, stopVars,
                   clientVars>>

InList(c, list) == \E i \in DOMAIN list : list[i] = c

\* A removal that empties the list: what self.clients.remove must not be.
ListRemoveAll(list, c) == <<>>

\* list.remove(x): the list without the first occurrence of x.
ListRemove(list, c) ==
    LET i == CHOOSE k \in DOMAIN list :
                list[k] = c /\ \A j \in 1..(k - 1) : list[j] # c
    IN  SubSeq(list, 1, i - 1) \o SubSeq(list, i + 1, Len(list))

\* finally: if client_socket in self.clients:
SS_finally_test(c) ==
    /\ impl = "simple_ws_server"
    /\ pc[c] = "finally_test"
    /\ pc' = [pc EXCEPT ![c] =
            IF InList(c, clients) THEN "finally_remove" ELSE "close"]
    /\ UNCHANGED <<fixed, running, listening, req, nokey, readVars, out,
                   closeCount, wired, connected_clients, clients, stopVars,
                   clientVars>>

\* finally: self.clients.remove(client_socket); ValueError if it is gone,
\* which leaves the finally block before client_socket.close().
SS_finally_remove(c) ==
    /\ impl = "simple_ws_server"
    /\ pc[c] = "finally_remove"
    /\ IF InList(c, clients)
       THEN /\ clients' = ListRemove(clients, c)
            /\ pc' = [pc EXCEPT ![c] = "close"]
       ELSE /\ pc' = [pc EXCEPT ![c] = "raised"]
            /\ UNCHANGED clients
    /\ UNCHANGED <<fixed, running, listening, req, nokey, readVars, out,
                   closeCount, wired, connected_clients, stopVars, clientVars>>

\* finally: client_socket.close()
SS_finally_close(c) ==
    /\ impl = "simple_ws_server"
    /\ pc[c] = "close"
    /\ closeCount' = [closeCount EXCEPT ![c] = @ + 1]
    /\ pc' = [pc EXCEPT ![c] = "done"]
    /\ UNCHANGED <<fixed, running, listening, req, nokey, readVars, out,
                   wired, connected_clients, clients, stopVars, clientVars>>

\* stop_server, as start_server calls it in its finally when the accept loop
\* ends: self.running = False and the copy self.clients[:] is taken.
SS_stop_begin ==
    /\ impl = "simple_ws_server"
    /\ stoppc = "idle"
    /\ running' = FALSE
    /\ snapshot' = clients
    /\ stoppc' = "closing"
    /\ stopCalls' = stopCalls + 1
    /\ UNCHANGED <<fixed, listening, pc, req, nokey, readVars, out,
                   closeCount, wired, connected_clients, clients, clientVars>>

\* stop_server: client.close() for the next client of the copy.
SS_stop_close_client ==
    /\ impl = "simple_ws_server"
    /\ stoppc = "closing"
    /\ snapshot # <<>>
    /\ closeCount' = [closeCount EXCEPT ![Head(snapshot)] = @ + 1]
    /\ snapshot' = Tail(snapshot)
    /\ UNCHANGED <<fixed, running, listening, pc, req, nokey, readVars,
                   out, wired, connected_clients, clients, stoppc, stopCalls,
                   clientVars>>

\* stop_server: self.clients.clear()
SS_stop_clear ==
    /\ impl = "simple_ws_server"
    /\ stoppc = "closing"
    /\ snapshot = <<>>
    /\ clients' = <<>>
    /\ stoppc' = "listener"
    /\ UNCHANGED <<fixed, running, listening, pc, req, nokey, readVars,
                   out, closeCount, wired, connected_clients, snapshot,
                   stopCalls, clientVars>>

\* stop_server: self.server_socket.close()
SS_stop_close_listener ==
    /\ impl = "simple_ws_server"
    /\ stoppc = "listener"
    /\ listening' = FALSE
    /\ stoppc' = "returned"
    /\ UNCHANGED <<fixed, running, pc, req, nokey, readVars, out,
                   closeCount, wired, connected_clients, clients, snapshot,
                   stopCalls, clientVars>>

SS_Next ==
    \/ SS_start_server
    \/ \E c \in Conns, io \in {"ok", "recv_error", "send_error"} :
            SS_perform_handshake(c, io)
    \/ \E c \in Conns : SS_clients_append(c)
    \/ \E c \in Conns : SS_loop_test(c)
    \/ \E c \in Conns : \E n \in 1..RecvLimit(c, SIMPLE_RECV_SIZE) :
            SS_handle_data(c, n)
    \/ \E c \in Conns : SS_recv_eof(c)
    \/ \E c \in Conns : SS_recv_error(c)
    \/ \E c \in Conns : SS_finally_test(c)
    \/ \E c \in Conns : SS_finally_remove(c)
    \/ \E c \in Conns : SS_finally_close(c)
    \/ SS_stop_begin
    \/ SS_stop_close_client
    \/ SS_stop_clear
    \/ SS_stop_close_listener

(***************************************************************************)
(* SimpleWebSocketClient (src/simple_ws_client.py).  Its socket is "c1";    *)
(* pc["c1"] is the receive_messages thread, mainpc the main thread in      *)
(* interactive_mode.                                                       *)
(***************************************************************************)
\* A handshake response: its status code and its header lines.
Response(status, lines) == [status |-> status, lines |-> lines]

\* Responses the server may send back.
Responses ==
    { Response("101", <<Line("Sec-WebSocket-Accept", 1,
                             create_websocket_accept_key(ClientKey))>>),
      Response("101", <<Line("Sec-WebSocket-Accept", 1,
                             create_websocket_accept_key(KeyStr(0, "k2")))>>),
      Response("101", <<Line("sec-websocket-accept", 1,
                             create_websocket_accept_key(ClientKey))>>),
      Response("400", <<>>) }

\* The response text both servers send: the 101 status line and
\* "Sec-WebSocket-Accept: " followed by the accept key.
ServerResponse(accept_key) ==
    Response("101", <<Line("Sec-WebSocket-Accept", 1, accept_key)>>)

\* Nothing came back: connect or recv raised.
NoResponse == Response("", <<>>)

\* A verification that looks at the status line alone: the faulty variant
\* the hard-check property is compared against.
verify_status_only(response, websocket_key) == response.status = "101"

CL_IsAcceptLine(line) == line.name = "Sec-WebSocket-Accept"

\* verify_handshake_response(response, websocket_key)
verify_handshake_response(response, websocket_key) ==
    IF response.status # "101" THEN FALSE
    ELSE LET i == FirstLine([j \in DOMAIN response.lines |->
                                   CL_IsAcceptLine(response.lines[j])])
         IN  IF i = 0 THEN FALSE
             ELSE IF response.lines[i].spaces = 0 THEN FALSE    \* IndexError
             ELSE /\ response.lines[i].spaces = 1
                  /\ response.lines[i].value
                        = create_websocket_accept_key(websocket_key)

\* connect(), and on success interactive_mode starting the receive thread.
\* io is what the transport does: "ok", "connect_error" or "recv_error".
CL_connect(response, io) ==
    /\ impl = "simple_ws_client"
    /\ mainpc = "start"
    /\ LET success == io = "ok" /\ verify_handshake_response(response, ClientKey)
       IN  /\ out' = [out EXCEPT !["c1"] =
                IF io = "connect_error" THEN @
                ELSE Append(@, HttpRequest(ClientKey, TRUE))]
           /\ IF success
              THEN /\ connected' = TRUE
                   /\ running' = TRUE
                   /\ mainpc' = "input"
                   /\ pc' = [pc EXCEPT !["c1"] = "loop"]
                   /\ UNCHANGED closeCount
              ELSE \* self.socket.close(); return False
                   /\ closeCount' = [closeCount EXCEPT !["c1"] = @ + 1]
                   /\ mainpc' = "exit"
                   /\ UNCHANGED <<connected, running, pc>>
    /\ req' = [req EXCEPT !["c1"] =
                IF io = "ok" THEN response ELSE NoResponse]
    /\ UNCHANGED <<fixed, listening, nokey, readVars, wired,
                   connected_clients, clients, stopVars>>

\* interactive_mode: while self.connected: ... raw_input(...)
CL_input_test ==
    /\ impl = "simple_ws_client"
    /\ mainpc = "input"
    /\ mainpc' = IF connected THEN "prompt" ELSE "disconnect"
    /\ UNCHANGED <<fixed, running, listening, pc, req, nokey, readVars,
                   out, closeCount, wired, connected_clients, clients,
                   stopVars, connected>>

\* The user typed a message: send_message(message) tests self.connected
\* ("Not connected to server", return False) ...
CL_send_test ==
    /\ impl = "simple_ws_client"
    /\ mainpc = "prompt"
    /\ Len(out["c1"]) < MaxOut
    /\ mainpc' = IF connected THEN "send" ELSE "input"
    /\ UNCHANGED <<fixed, running, listening, pc, req, nokey, readVars,
                   out, closeCount, wired, connected_clients, clients,
                   stopVars, connected>>

\* ... and then builds the Text frame and calls self.socket.send(frame);
\* the receive thread may have run in between.
CL_send_message(payload, ok) ==
    /\ impl = "simple_ws_client"
    /\ mainpc = "send"
    /\ out' = [out EXCEPT !["c1"] =
            Append(@, FrameWrite(create_frame(payload, WS_OPCODE_TEXT,
                                              TestMask), ok))]
    /\ mainpc' = "input"
    /\ UNCHANGED <<fixed, running, listening, pc, req, nokey, readVars,
                   closeCount, wired, connected_clients, clients, stopVars,
                   connected>>

\* The user typed quit, or interrupted: break, and the finally disconnects.
CL_quit ==
    /\ impl = "simple_ws_client"
    /\ mainpc = "prompt"
    /\ mainpc' = "disconnect"
    /\ UNCHANGED <<fixed, running, listening, pc, req, nokey, readVars,
                   out, closeCount, wired, connected_clients, clients,
                   stopVars, connected>>

\* disconnect(): self.running = False; self.connected = False
CL_disconnect_flags ==
    /\ impl = "simple_ws_client"
    /\ mainpc = "disconnect"
    /\ running' = FALSE
    /\ connected' = FALSE
    /\ mainpc' = "closing"
    /\ UNCHANGED <<fixed, listening, pc, req, nokey, readVars, out,
                   closeCount, wired, connected_clients, clients, stopVars>>

\* disconnect(): the Close frame is sent and the socket closed; if the send
\* raises, the bare except skips the close.
CL_disconnect_close(ok) ==
    /\ impl = "simple_ws_client"
    /\ mainpc = "closing"
    /\ out' = [out EXCEPT !["c1"] =
            Append(@, FrameWrite(create_frame(<<>>, WS_OPCODE_CLOSE, TestMask),
                                 ok))]
    /\ closeCount' = [closeCount EXCEPT !["c1"] = IF ok THEN @ + 1 ELSE @]
    /\ mainpc' = "exit"
    /\ UNCHANGED <<fixed, running, listening, pc, req, nokey, readVars,
                   wired, connected_clients, clients, stopVars, connected>>

\* receive_messages: while self.running and self.connected: ... recv(1024)
CL_loop_test ==
    /\ impl = "simple_ws_client"
    /\ pc["c1"] = "loop"
    /\ pc' = [pc EXCEPT !["c1"] =
            IF running /\ connected /\ closeCount["c1"] = 0 THEN "recv"
            ELSE "after"]
    /\ UNCHANGED <<fixed, running, listening, req, nokey, readVars, out,
                   closeCount, wired, connected_clients, clients, stopVars,
                   clientVars>>

\* Where the receive loop goes after a decoded frame.
CL_after_dispatch(opcode, payload) ==
    IF opcode = 8 THEN "after"
    ELSE IF opcode = 1 /\ ~Utf8Ok(payload) THEN "after"
    ELSE "loop"

CL_handle_data(n) ==
    /\ impl = "simple_ws_client"
    /\ pc["c1"] = "recv"
    /\ n >= 1 /\ n <= RecvLimit("c1", SIMPLE_RECV_SIZE)
    /\ LET frame == client_decode_frame(RecvData("c1", n))
       IN  /\ ReadStep("c1", n, frame.opcode, frame.payload)
           /\ pc' = [pc EXCEPT !["c1"] =
                IF frame = NoDict THEN "loop"
                ELSE CL_after_dispatch(frame.opcode, frame.payload)]
    /\ UNCHANGED <<fixed, running, listening, req, nokey, out,
                   closeCount, wired, connected_clients, clients, stopVars,
                   clientVars>>

\* recv returns b'': "Server closed connection", break.
CL_recv_eof ==
    /\ impl = "simple_ws_client"
    /\ pc["c1"] = "recv"
    /\ Unread("c1") = <<>>
    /\ pc' = [pc EXCEPT !["c1"] = "after"]
    /\ UNCHANGED <<fixed, running, listening, req, nokey, readVars, out,
                   closeCount, wired, connected_clients, clients, stopVars,
                   clientVars>>

\* socket.timeout after the 10 s set by connect(): continue.
CL_recv_timeout ==
    /\ impl = "simple_ws_client"
    /\ pc["c1"] = "recv"
    /\ pc' = [pc EXCEPT !["c1"] = "loop"]
    /\ UNCHANGED <<fixed, running, listening, req, nokey, readVars, out,
                   closeCount, wired, connected_clients, clients, stopVars,
                   clientVars>>

\* recv raises: "Receive error", break.
CL_recv_error ==
    /\ impl = "simple_ws_client"
    /\ pc["c1"] = "recv"
    /\ pc' = [pc EXCEPT !["c1"] = "after"]
    /\ UNCHANGED <<fixed, running, listening, req, nokey, readVars, out,
                   closeCount, wired, connected_clients, clients, stopVars,
                   clientVars>>

\* After the loop: self.connected = False
CL_after_loop ==
    /\ impl = "simple_ws_client"
    /\ pc["c1"] = "after"
    /\ connected' = FALSE
    /\ pc' = [pc EXCEPT !["c1"] = "done"]
    /\ UNCHANGED <<fixed, running, listening, req, nokey, readVars, out,
                   closeCount, wired, connected_clients, clients, stopVars,
                   mainpc>>

\* The server the client is connected to writes a frame.
ServerSend(f) ==
    /\ impl = "simple_ws_client"
    /\ pc["c1"] \in {"loop", "recv"}
    /\ wired + Len(f.bytes) <= WireBudget
    /\ wired' = wired + Len(f.bytes)
    /\ pending' = [pending EXCEPT !["c1"] = Append(@, f)]
    /\ UNCHANGED <<fixed, running, listening, pc, req, nokey, consumed,
                   rdpos, last, ndisp, out, closeCount, connected_clients,
                   clients, stopVars, clientVars>>

CL_Next ==
    \/ \E response \in Responses, io \in {"ok", "connect_error", "recv_error"} :
            CL_connect(response, io)
    \/ CL_input_test
    \/ CL_send_test
    \/ \E ok \in BOOLEAN : CL_send_message(<<104>>, ok)
    \/ CL_quit
    \/ CL_disconnect_flags
    \/ \E ok \in BOOLEAN : CL_disconnect_close(ok)
    \/ CL_loop_test
    \/ \E n \in 1..RecvLimit("c1", SIMPLE_RECV_SIZE) : CL_handle_data(n)
    \/ CL_recv_eof
    \/ CL_recv_timeout
    \/ CL_recv_error
    \/ CL_after_loop

PeerNext ==
    \/ \E c \in Conns, f \in ClientFrames : PeerSend(c, f)
    \/ \E f \in ServerFrames : ServerSend(f)

Next == WS_Next \/ SS_Next \/ CL_Next \/ PeerNext

Spec == Init /\ [][Next]_vars

(***************************************************************************)
(* The codec functions on their own: a frame is encoded by one role's      *)
(* encoder, the bytes are possibly cut to a strict prefix, and a decoder   *)
(* is applied; or its payload is masked and unmasked with the same key.    *)
(***************************************************************************)
CodecOpcodes == {WS_OPCODE_CONTINUATION, WS_OPCODE_TEXT, WS_OPCODE_BINARY,
                 WS_OPCODE_CLOSE, WS_OPCODE_PING, WS_OPCODE_PONG}

\* Payload lengths of the three length classes (7-bit, 16-bit, 64-bit), at
\* and around the class borders.
CodecLens == {0, 1, 5, 125, 126, 300}
CodecLongLens == {65535, 65536}

\* A text payload of n bytes (ASCII, so message.encode('utf-8') is it).
TestPayload(n) == [i \in 1..n |-> (i * 7) % 128]

CodecMasks == { <<1, 2, 3, 4>>, <<255, 0, 129, 7>> }

CodecFrames ==
    { [opcode |-> op, payload |-> TestPayload(n), mask |-> k] :
        op \in CodecOpcodes, n \in CodecLens, k \in CodecMasks }
    \cup
    { [opcode |-> WS_OPCODE_BINARY, payload |-> TestPayload(n),
       mask |-> <<255, 0, 129, 7>>] : n \in CodecLongLens }

\* Lengths of the strict prefixes tried: the first bytes (across every
\* header layout) and the last ones.
CutPoints(len) ==
    { k \in (0..13) \cup {len - 5, len - 4, len - 3, len - 2, len - 1} :
        k >= 0 /\ k < len }

CodecInit ==
    /\ impl = "codec"
    /\ live = {}
    /\ peer = "any"
    /\ \E f \in CodecFrames :
          codec = CodecState("frame", f, "", <<>>, FALSE, "", NoFrame)
    /\ json = JsonOff
    /\ relay = RelayOff
    /\ running = FALSE
    /\ listening = FALSE
    /\ pc = [c \in Conns |-> "idle"]
    /\ req = [c \in Conns |-> NoRequest]
    /\ nokey = [c \in Conns |-> FALSE]
    /\ pending = [c \in Conns |-> <<>>]
    /\ consumed = [c \in Conns |-> 0]
    /\ rdpos = [c \in Conns |-> 0]
    /\ last = [c \in Conns |-> NoDispatch]
    /\ ndisp = [c \in Conns |-> 0]
    /\ out = [c \in Conns |-> <<>>]
    /\ closeCount = [c \in Conns |-> 0]
    /\ wired = 0
    /\ connected_clients = {}
    /\ clients = <<>>
    /\ stoppc = "idle"
    /\ snapshot = <<>>
    /\ stopCalls = 0
    /\ connected = FALSE
    /\ mainpc = "start"

programVars == <<impl, live, peer, json, relay, running, listening, pc, req, nokey,
                 readVars, out, closeCount, wired, connected_clients, clients,
                 stopVars, clientVars>>

\* The frame is encoded: "server" by create_websocket_frame, "client" by
\* create_frame with the mask drawn.
CodecEncode(role) ==
    /\ codec.at = "frame"
    /\ codec' = [codec EXCEPT
            !.at = "wire",
            !.enc = role,
            !.wire = IF role = "server"
                     THEN create_websocket_frame(codec.opcode, codec.payload)
                     ELSE create_frame(codec.payload, codec.opcode, codec.mask)]
    /\ UNCHANGED programVars

\* Only the first k bytes of the frame have arrived.
CodecTruncate(k) ==
    /\ codec.at = "wire"
    /\ ~codec.cut
    /\ k \in CutPoints(Len(codec.wire))
    /\ codec' = [codec EXCEPT !.wire = SubSeq(codec.wire, 1, k), !.cut = TRUE]
    /\ UNCHANGED programVars

\* What decoder `dec` returns for the bytes, as (opcode, payload); None is
\* NoFrame.
DecodeWith(dec, data) ==
    IF dec = "parse_websocket_frame" THEN parse_websocket_frame(data)
    ELSE LET frame == IF dec = "server_decode_frame"
                      THEN server_decode_frame(data)
                      ELSE client_decode_frame(data)
         IN  [opcode |-> frame.opcode, payload |-> frame.payload]

Decoders == {"parse_websocket_frame", "server_decode_frame",
             "client_decode_frame"}

CodecDecode(dec) ==
    /\ codec.at = "wire"
    /\ codec' = [codec EXCEPT
            !.at = "result",
            !.dec = dec,
            !.result = DecodeWith(dec, codec.wire)]
    /\ UNCHANGED programVars

\* create_frame's masking loop on the payload alone.
CodecMask ==
    /\ codec.at = "frame"
    /\ codec' = [codec EXCEPT
            !.at = "masked",
            !.wire = XorCycle(codec.payload, codec.mask)]
    /\ UNCHANGED programVars

\* The servers' unmasking loop on the masked payload, with the same key.
CodecUnmask ==
    /\ codec.at = "masked"
    /\ codec' = [codec EXCEPT
            !.at = "unmasked",
            !.result = [opcode |-> codec.opcode,
                        payload |-> XorCycle(codec.wire, codec.mask)]]
    /\ UNCHANGED programVars

CodecNext ==
    \/ \E role \in {"server", "client"} : CodecEncode(role)
    \/ \E k \in CutPoints(Len(codec.wire)) : CodecTruncate(k)
    \/ \E dec \in Decoders : CodecDecode(dec)
    \/ CodecMask
    \/ CodecUnmask

CodecSpec == CodecInit /\ [][CodecNext]_vars

(***************************************************************************)
(* Vocabulary of the properties.                                           *)
(***************************************************************************)
Servers == {"WS_Server", "simple_ws_server"}

\* The handler (receive thread) of c is in its read loop: the connection is OPEN.
OpenPcs == {"loop", "recv", "pong"}

\* The live-connection set of the server that runs.
Registry ==
    IF impl = "WS_Server" THEN connected_clients
    ELSE { clients[i] : i \in DOMAIN clients }

KnownOpcodes == {WS_OPCODE_TEXT, WS_OPCODE_BINARY, WS_OPCODE_CLOSE,
                 WS_OPCODE_PING, WS_OPCODE_PONG}

\* The step is a read on c that returned data; ReadLen is how much.
IsRead(c) == rdpos'[c] > rdpos[c]
ReadLen(c) == rdpos'[c] - rdpos[c]

\* Frames that lie whole in the first n bytes of `frames`, counted up to
\* and including the first one that ends the connection.
RECURSIVE WholeFrames(_, _)
WholeFrames(frames, n) ==
    IF frames = <<>> \/ n < Len(Head(frames).bytes) THEN 0
    ELSE IF Head(frames).opcode \notin KnownOpcodes \ {WS_OPCODE_CLOSE} THEN 1
    ELSE 1 + WholeFrames(Tail(frames), n - Len(Head(frames).bytes))

\* An unmasked Pong frame with this payload (shorter than 126 bytes).
UnmaskedPong(payload) == <<138, Len(payload)>> \o payload

LastOut(c) == out[c][Len(out[c])]

(***************************************************************************)
(* C1: on a server connection a frame whose bytes arrive split across two  *)
(* or more reads is not lost: the read that returns its last byte          *)
(* dispatches it (and, when the read ends with that byte, dispatches       *)
(* exactly that frame, once).  The servers parse each read on its own, so  *)
(* this fails.                                                             *)
(***************************************************************************)
C1_SplitFrameDispatched ==
    [][\A c \in Conns :
         ( /\ impl \in Servers
           /\ IsRead(c)
           /\ consumed[c] > 0
           /\ consumed[c] + ReadLen(c) >= Len(Head(pending[c]).bytes) )
         => /\ ndisp'[c] >= ndisp[c] + 1
            /\ (consumed[c] + ReadLen(c) = Len(Head(pending[c]).bytes)
                  => /\ ndisp'[c] = ndisp[c] + 1
                     /\ last'[c].opcode = Head(pending[c]).opcode
                     /\ last'[c].payload = Head(pending[c]).payload)
      ]_vars

(***************************************************************************)
(* C2: a read that starts at a frame boundary and returns two or more      *)
(* whole frames dispatches every one of them.  The loops decode one frame  *)
(* per read, so this fails.                                                *)
(***************************************************************************)
C2_EveryFrameOfAReadDispatched ==
    [][\A c \in Conns :
         ( /\ IsRead(c)
           /\ consumed[c] = 0
           /\ WholeFrames(pending[c], ReadLen(c)) >= 2 )
         => ndisp'[c] = ndisp[c] + WholeFrames(pending[c], ReadLen(c))
      ]_vars

(***************************************************************************)
(* C3: frames of one connection are dispatched in arrival order: each      *)
(* dispatch is of bytes that start after the start of every frame          *)
(* dispatched before on that connection, whatever the other threads do.    *)
(***************************************************************************)
C3_ArrivalOrder ==
    [][\A c \in Conns :
         ndisp'[c] # ndisp[c]
         => /\ ndisp'[c] = ndisp[c] + 1
            /\ last'[c].at > last[c].at
            /\ last'[c].at > rdpos[c]
            /\ last'[c].at <= rdpos'[c]
      ]_vars

C3_Witness ==
    /\ live = Conns
    /\ ndisp["c1"] >= 2
    /\ pc["c2"] \in OpenPcs
    /\ last["c1"].at > 1

(***************************************************************************)
(* C4: in WebSocketServer.handle_client a dispatched Ping puts the handler *)
(* before its send_pong call, and from there its next step - with no read  *)
(* and no dispatch in between - is one send of the unmasked Pong frame     *)
(* that carries the Ping's payload byte for byte.                          *)
(***************************************************************************)
C4_PingThenPong ==
    [][\A c \in Conns :
         impl = "WS_Server"
         => /\ (ndisp'[c] # ndisp[c] /\ last'[c].opcode = WS_OPCODE_PING)
                  => pc'[c] = "pong"
            /\ pc[c] = "pong"
                  => \/ /\ pc'[c] = "pong"
                        /\ out'[c] = out[c]
                        /\ rdpos'[c] = rdpos[c]
                        /\ ndisp'[c] = ndisp[c]
                     \/ /\ pc'[c] = "loop"
                        /\ Len(out'[c]) = Len(out[c]) + 1
                        /\ SubSeq(out'[c], 1, Len(out[c])) = out[c]
                        /\ out'[c][Len(out'[c])].kind = "frame"
                        /\ out'[c][Len(out'[c])].bytes
                              = UnmaskedPong(last[c].payload)
                        /\ rdpos'[c] = rdpos[c]
                        /\ ndisp'[c] = ndisp[c]
      ]_vars

C4_Witness ==
    \E c \in Conns :
        /\ impl = "WS_Server"
        /\ pc[c] = "recv"
        /\ ndisp[c] > 0
        /\ last[c].opcode = WS_OPCODE_PING
        /\ last[c].payload = <<112>>
        /\ out[c] # <<>>
        /\ LastOut(c).bytes = <<138, 1, 112>>

(***************************************************************************)
(* C5: SimpleWebSocketServer and SimpleWebSocketClient answer a Ping with  *)
(* a Pong: once the loop is back at its read after a Ping, a Pong frame    *)
(* with the Ping's payload has been written on the connection.  Both only  *)
(* print, so this fails.                                                   *)
(***************************************************************************)
C5_SimplePingThenPong ==
    \A c \in Conns :
        ( /\ impl \in {"simple_ws_server", "simple_ws_client"}
          /\ ndisp[c] > 0
          /\ last[c].opcode = WS_OPCODE_PING
          /\ pc[c] \in {"loop", "recv"} )
        => \E i \in DOMAIN out[c] :
              /\ out[c][i].kind = "frame"
              /\ parse_websocket_frame(out[c][i].bytes)
                    = [opcode |-> WS_OPCODE_PONG, payload |-> last[c].payload]

(***************************************************************************)
(* C6: a dispatched Close frame ends the read loop in that very iteration: *)
(* the handler is out of the loop at once, and afterwards it reads nothing *)
(* and dispatches nothing on that connection.                              *)
(***************************************************************************)
CloseSeen(c) == ndisp[c] > 0 /\ last[c].opcode = WS_OPCODE_CLOSE

C6_CloseEndsLoop ==
    [][\A c \in Conns :
         /\ CloseSeen(c)' => pc'[c] \notin OpenPcs
         /\ CloseSeen(c) => /\ rdpos'[c] = rdpos[c]
                            /\ ndisp'[c] = ndisp[c]
                            /\ last'[c] = last[c]
      ]_vars

C6_Witness ==
    \E c \in Conns :
        /\ CloseSeen(c)
        /\ Unread(c) # <<>>
        /\ pc[c] = "done"

(***************************************************************************)
(* C7: every socket is closed exactly once on every exit path: never       *)
(* twice, and once its connection has ended, not zero times.  A failed     *)
(* handshake closes the socket in the handler and again in its finally, so *)
(* this fails.                                                             *)
(***************************************************************************)
ConnectionEnded(c) ==
    IF impl = "simple_ws_client" THEN c = "c1" /\ mainpc = "exit"
    ELSE pc[c] \in {"done", "raised"}

C7_ClosedExactlyOnce ==
    \A c \in Conns :
        /\ closeCount[c] <= 1
        /\ ConnectionEnded(c) => closeCount[c] = 1

(***************************************************************************)
(* C8: the live-connection set changes only when a handler registers its   *)
(* socket after its handshake and when a handler leaves; its members are   *)
(* sockets whose handler is between the two.  stop_server of the simple    *)
(* server clears the list, so this fails.                                  *)
(***************************************************************************)
C8_RegistryChanges ==
    [][/\ \A c \in Registry' :
            pc'[c] \in OpenPcs \cup {"unregister", "finally_test",
                                     "finally_remove"}
       /\ Registry' # Registry
            => \E c \in Conns :
                \/ /\ pc[c] = "register" /\ pc'[c] = "loop"
                   /\ Registry' = Registry \cup {c}
                \/ /\ pc[c] \in {"unregister", "finally_remove"}
                   /\ pc'[c] = "close"
                   /\ Registry' = Registry \ {c}
      ]_vars

(***************************************************************************)
(* C9: a dispatched frame whose opcode is none of Text, Binary, Close,     *)
(* Ping, Pong ends the connection: the handler is out of its read loop.    *)
(* Both servers go on reading, so this fails.                              *)
(***************************************************************************)
C9_UnknownOpcodeFatal ==
    \A c \in Conns :
        ( /\ impl \in Servers
          /\ ndisp[c] > 0
          /\ last[c].opcode \notin KnownOpcodes )
        => pc[c] \notin OpenPcs

(***************************************************************************)
(* C10: a connection whose handshake request has no Sec-WebSocket-Key      *)
(* header gets no 101 response, is never registered, is never read for     *)
(* frames, and has its socket closed when the handshake has failed.        *)
(***************************************************************************)
C10_MissingKeyFatal ==
    \A c \in Conns :
        (impl \in Servers /\ nokey[c])
        => /\ \A i \in DOMAIN out[c] : out[c][i].kind # "101"
           /\ c \notin Registry
           /\ pc[c] \notin OpenPcs \cup {"register"}
           /\ rdpos[c] = 0
           /\ ndisp[c] = 0
           /\ pc[c] # "handshake" => closeCount[c] >= 1

C10_Witness ==
    \E c \in Conns :
        /\ impl \in Servers
        /\ nokey[c]
        /\ out[c] = <<>>
        /\ pc[c] = "done"

(***************************************************************************)
(* C11: the server handshake finds the Sec-WebSocket-Key header whatever   *)
(* the letter case of its name and the spacing after the colon: for a      *)
(* request about to be handled that has the header with a non-empty value, *)
(* the handshake finds the key and its accept key is that of the value;    *)
(* it finds no key only when the header is absent.  SimpleWebSocketServer  *)
(* matches the name case-sensitively and splits on ': ', so this fails.    *)
(***************************************************************************)
HandshakeKey(request) ==
    IF impl = "WS_Server" THEN WS_handshake_key(request)
    ELSE SS_handshake_key(request)

C11_HeaderCaseInsensitive ==
    \A c \in Conns :
        (impl \in Servers /\ pc[c] = "handshake")
        => LET h == HandshakeKey(req[c])
           IN  /\ \A i \in DOMAIN req[c] :
                    ( /\ Lower(req[c][i].name) = "sec-websocket-key"
                      /\ req[c][i].value # "" )
                    => /\ h.found
                       /\ create_websocket_accept_key(h.key)
                            = create_websocket_accept_key(
                                    KeyStr(0, req[c][i].value))
               /\ ~h.found => NoKeyHeader(req[c])

(***************************************************************************)
(* C12: the client's handshake verification is a hard check.  The receive  *)
(* thread runs (connect returned True) only if the response had status 101 *)
(* and a Sec-WebSocket-Accept value equal to the accept key of the         *)
(* client's own key; after any other response connected and running are    *)
(* False, the socket is closed, and no frame is ever sent or received.     *)
(***************************************************************************)
AcceptMatches(response) ==
    /\ response.status = "101"
    /\ \E i \in DOMAIN response.lines :
          /\ Lower(response.lines[i].name) = "sec-websocket-accept"
          /\ response.lines[i].value = create_websocket_accept_key(ClientKey)

C12_HardVerification ==
    (impl = "simple_ws_client" /\ mainpc # "start")
    => /\ (pc["c1"] # "idle" \/ connected \/ running)
            => AcceptMatches(req["c1"])
       /\ ~AcceptMatches(req["c1"])
            => /\ ~connected /\ ~running
               /\ mainpc = "exit"
               /\ pc["c1"] = "idle"
               /\ closeCount["c1"] = 1
               /\ \A i \in DOMAIN out["c1"] : out["c1"][i].kind # "frame"
               /\ rdpos["c1"] = 0
               /\ ndisp["c1"] = 0

C12_Witness ==
    /\ impl = "simple_ws_client"
    /\ mainpc = "exit"
    /\ req["c1"].status = "101"
    /\ ~AcceptMatches(req["c1"])
    /\ closeCount["c1"] = 1
    /\ ~connected

(***************************************************************************)
(* C13: end to end with a SimpleWebSocketClient as the peer of a server.   *)
(* The server finds the key X of the client's request, and the response it *)
(* writes carries accept(X) and passes the client's verification; and      *)
(* every send_message frame that a read returns whole is dispatched: a     *)
(* read that starts at a frame boundary dispatches each frame it holds     *)
(* whole, as a Text frame with the message's payload.  Two messages that   *)
(* one read returns together lose the second, so this fails.               *)
(***************************************************************************)
\* The send_message (Text) frames that lie whole at the start of the first
\* n bytes of `frames`.
RECURSIVE SentWhole(_, _)
SentWhole(frames, n) ==
    IF frames = <<>> THEN 0
    ELSE IF n < Len(Head(frames).bytes) THEN 0
    ELSE IF Head(frames).opcode # WS_OPCODE_TEXT THEN 0
    ELSE 1 + SentWhole(Tail(frames), n - Len(Head(frames).bytes))

C13_EndToEnd ==
    [][\A c \in Conns :
         (impl \in Servers /\ peer = "simple_ws_client")
         => /\ pc[c] = "handshake"
                => /\ req[c] = create_handshake_request(ClientKey)
                   /\ HandshakeKey(req[c]).found
            /\ (pc[c] = "handshake" /\ pc'[c] = "register")
                => /\ out'[c] # <<>>
                   /\ out'[c][Len(out'[c])].kind = "101"
                   /\ verify_handshake_response(
                         ServerResponse(out'[c][Len(out'[c])].accept),
                         ClientKey)
            /\ (IsRead(c) /\ consumed[c] = 0)
                => /\ ndisp'[c] >= ndisp[c] + SentWhole(pending[c], ReadLen(c))
                   /\ ( /\ SentWhole(pending[c], ReadLen(c)) = 1
                        /\ ndisp'[c] = ndisp[c] + 1 )
                        => /\ last'[c].opcode = WS_OPCODE_TEXT
                           /\ last'[c].payload = <<104>>
      ]_vars

(***************************************************************************)
(* C14: codec round trip.  For every opcode and every payload of the three *)
(* length classes, a decoder applied to all the bytes an encoder wrote     *)
(* returns the opcode and the payload that went in: either server decoder  *)
(* on create_websocket_frame's and on the client's masked create_frame's   *)
(* bytes, and the client's decode_frame on create_websocket_frame's bytes. *)
(***************************************************************************)
RoundTripPairs ==
    { <<"server", "parse_websocket_frame">>,
      <<"client", "parse_websocket_frame">>,
      <<"server", "server_decode_frame">>,
      <<"client", "server_decode_frame">>,
      <<"server", "client_decode_frame">> }

C14_RoundTrip ==
    ( /\ codec.at = "result"
      /\ ~codec.cut
      /\ <<codec.enc, codec.dec>> \in RoundTripPairs )
    => /\ codec.result.opcode = codec.opcode
       /\ codec.result.payload = codec.payload

C14_Witness ==
    /\ codec.at = "result"
    /\ ~codec.cut
    /\ codec.enc = "client"
    /\ codec.dec = "server_decode_frame"
    /\ Len(codec.payload) = 300
    /\ codec.result.payload = codec.payload

(***************************************************************************)
(* C15: masking involution.  A payload XOR-ed byte i with key[i mod 4], as *)
(* create_frame does, and XOR-ed again with the same key, as the servers'  *)
(* decoders do, is the payload that went in.                               *)
(***************************************************************************)
C15_MaskingInvolution ==
    codec.at = "unmasked"
    => /\ codec.result.payload = codec.payload
       /\ XorCycle(XorCycle(codec.payload, codec.mask), codec.mask)
            = codec.payload

C15_Witness ==
    /\ codec.at = "unmasked"
    /\ Len(codec.payload) = 300
    /\ codec.wire # codec.payload
    /\ codec.result.payload = codec.payload

(***************************************************************************)
(* C16: partial-buffer safety.  Every decoder returns None for every       *)
(* strict prefix of the bytes of a frame, masked or unmasked.  The         *)
(* client's decode_frame does not count the masking key into the header,   *)
(* so it decodes a prefix of a masked frame; this fails.                   *)
(***************************************************************************)
C16_PrefixNeedsMoreData ==
    (codec.at = "result" /\ codec.cut)
    => codec.result = NoFrame

(***************************************************************************)
(* C17: role-correct framing.  Every frame create_websocket_frame writes   *)
(* has FIN set, the opcode, the mask bit clear, and after the length field *)
(* the payload as it is; every frame create_frame writes has FIN set, the  *)
(* opcode, the mask bit set, after the length field the 4-byte key, and    *)
(* then the payload XOR-ed with that key.                                  *)
(***************************************************************************)
\* Bytes of the first byte plus the length field, for a payload of n bytes.
HeaderLen(n) == IF n < 126 THEN 2 ELSE IF n < 65536 THEN 4 ELSE 10

C17_RoleFraming ==
    (codec.at = "wire" /\ ~codec.cut)
    => LET w == codec.wire
           n == Len(codec.payload)
           h == HeaderLen(n)
       IN  /\ w[1] \div 128 = 1
           /\ w[1] % 16 = codec.opcode
           /\ (w[1] \div 16) % 8 = 0
           /\ IF codec.enc = "server"
              THEN /\ w[2] \div 128 = 0
                   /\ Len(w) = h + n
                   /\ SubSeq(w, h + 1, Len(w)) = codec.payload
              ELSE /\ w[2] \div 128 = 1
                   /\ Len(w) = h + 4 + n
                   /\ SubSeq(w, h + 5, Len(w))
                        = XorCycle(codec.payload, SubSeq(w, h + 1, h + 4))

C17_Witness ==
    /\ codec.at = "wire"
    /\ ~codec.cut
    /\ codec.enc = "client"
    /\ codec.opcode = WS_OPCODE_CLOSE
    /\ codec.payload = <<>>
    /\ Len(codec.wire) = 6

(***************************************************************************)
(* C18: a transport failure ends its server connection.  A recv that       *)
(* returns no data (end of stream, or an error) takes the handler out of   *)
(* its read loop in that step, and so does a send that fails: once a send  *)
(* on the socket has failed the handler is never in its read loop again.   *)
(* send_pong swallows a failed send and the loop goes on, so this fails.   *)
(***************************************************************************)
FailedWrite(c) == \E i \in DOMAIN out[c] : ~out[c][i].ok

C18_TransportFailureFatal ==
    [][\A c \in Conns :
         impl \in Servers
         => /\ (pc[c] = "recv" /\ pc'[c] # "recv" /\ rdpos'[c] = rdpos[c])
                => pc'[c] \notin OpenPcs
            /\ FailedWrite(c)' => pc'[c] \notin OpenPcs \cup {"register"}
      ]_vars

(***************************************************************************)
(* C19: failure isolation.  A step by which the handler of one connection  *)
(* leaves its handshake or its read loop, or goes on through its teardown  *)
(* (after a failed handshake, a frame it cannot decode, a transport error) *)
(* leaves the accept loop as it was (running, the listening socket,        *)
(* stop_server not begun by it) and changes nothing of any other           *)
(* connection: its handler's position, what it has read and dispatched,    *)
(* what was sent on it, its socket, and its place in the registry.         *)
(***************************************************************************)
TeardownStep(c) ==
    /\ pc'[c] # pc[c]
    /\ pc'[c] \notin OpenPcs \cup {"handshake", "register"}

Untouched(d) ==
    /\ pc'[d] = pc[d]
    /\ req'[d] = req[d]
    /\ pending'[d] = pending[d]
    /\ consumed'[d] = consumed[d]
    /\ rdpos'[d] = rdpos[d]
    /\ last'[d] = last[d]
    /\ ndisp'[d] = ndisp[d]
    /\ out'[d] = out[d]
    /\ closeCount'[d] = closeCount[d]
    /\ (d \in Registry)' <=> d \in Registry

C19_FailureIsolation ==
    [][\A c \in Conns :
         impl \in Servers /\ TeardownStep(c)
         => /\ running' = running
            /\ listening' = listening
            /\ stoppc' = stoppc
            /\ \A d \in Conns \ {c} : Untouched(d)
      ]_vars

\* One connection has ended on a failed handshake while the other is
\* registered, has dispatched a frame and is still in its read loop, and
\* the server is still accepting.
C19_Witness ==
    /\ impl \in Servers
    /\ running /\ listening /\ stoppc = "idle"
    /\ pc["c1"] = "done" /\ nokey["c1"] /\ closeCount["c1"] >= 1
    /\ pc["c2"] \in OpenPcs /\ ndisp["c2"] >= 1
    /\ "c2" \in Registry

(***************************************************************************)
(* The servers with their handler threads scheduled fairly: a handler      *)
(* that can take a step of its own takes it.  A recv that has bytes to     *)
(* return returns; a recv that has none returns only when the peer or the  *)
(* transport makes it (end of stream, error), which nothing forces.        *)
(***************************************************************************)
HandlerStep(c) ==
    \/ \E io \in {"ok", "recv_error", "send_error"} :
            WS_perform_websocket_handshake(c, io)
    \/ WS_register_client(c)
    \/ WS_loop_test(c)
    \/ \E n \in 1..RecvLimit(c, WS_RECV_SIZE) : WS_handle_data(c, n)
    \/ \E ok \in BOOLEAN : WS_send_pong(c, ok)
    \/ WS_unregister_client(c)
    \/ WS_finally_close(c)
    \/ \E io \in {"ok", "recv_error", "send_error"} : SS_perform_handshake(c, io)
    \/ SS_clients_append(c)
    \/ SS_loop_test(c)
    \/ \E n \in 1..RecvLimit(c, SIMPLE_RECV_SIZE) : SS_handle_data(c, n)
    \/ SS_finally_test(c)
    \/ SS_finally_remove(c)
    \/ SS_finally_close(c)

\* The steps of the client's receive_messages thread.  Its recv returns
\* within the 10 s that connect() set as the socket's timeout.
ReceiveStep ==
    \/ CL_loop_test
    \/ \E n \in 1..RecvLimit("c1", SIMPLE_RECV_SIZE) : CL_handle_data(n)
    \/ CL_recv_timeout
    \/ CL_after_loop

FairSpec ==
    /\ Spec
    /\ \A c \in Conns : WF_vars(HandlerStep(c))
    /\ WF_vars(ReceiveStep)

(***************************************************************************)
(* C20: once stop_server has returned (the listening socket is closed), a  *)
(* handler that is blocked in recv eventually leaves its read loop, also   *)
(* when the peer sends nothing more and does not close.                    *)
(* WebSocketServer.stop_server closes no client socket, so this fails.     *)
(***************************************************************************)
C20_StopUnblocksReaders ==
    \A c \in Conns :
        (impl \in Servers /\ stoppc = "returned" /\ ~listening /\ pc[c] = "recv")
            ~> (pc[c] \notin OpenPcs)

(***************************************************************************)
(* C21: client-side cancellation.  Once disconnect() has set its flags on  *)
(* a connected client, the receive_messages thread eventually leaves its   *)
(* read loop; and once disconnect() has returned, the thread dispatches no *)
(* frame that a recv returns from then on.                                 *)
(* The recv that was in progress when disconnect() ran may still return a  *)
(* frame, which is dispatched, so the second part fails.                   *)
(***************************************************************************)
DisconnectCalled == mainpc \in {"closing", "exit"} /\ pc["c1"] # "idle"

DisconnectReturned == mainpc = "exit" /\ pc["c1"] # "idle"

C21_ReceiveLoopLeft ==
    (impl = "simple_ws_client" /\ DisconnectCalled /\ pc["c1"] \in OpenPcs)
        ~> (pc["c1"] \notin OpenPcs)

C21_ClientCancellation ==
    /\ C21_ReceiveLoopLeft
    /\ [][(impl = "simple_ws_client" /\ DisconnectReturned)
            => ndisp'["c1"] = ndisp["c1"]]_vars

(***************************************************************************)
(* C22: the client's connection state only moves forward, and a message    *)
(* (Text) frame is written only while the connection is OPEN: self.connected*)
(* is never set again once it was cleared, and at every send_message write *)
(* the handshake has verified, the receive thread is still in its read     *)
(* loop (no server Close, end of stream or read error yet) and             *)
(* disconnect() has not run.                                               *)
(* send_message tests self.connected and writes later; the receive thread  *)
(* can leave its loop in between, so this fails.                           *)
(***************************************************************************)
\* The send call just made on c1 wrote a Text frame.
MessageWritten ==
    /\ Len(out'["c1"]) = Len(out["c1"]) + 1
    /\ out'["c1"][Len(out'["c1"])].kind = "frame"
    /\ out'["c1"][Len(out'["c1"])].bytes[1] = 128 + WS_OPCODE_TEXT

ClientOpen ==
    /\ AcceptMatches(req["c1"])
    /\ pc["c1"] \in OpenPcs
    /\ mainpc \notin {"start", "closing", "exit"}

C22_LinearStates ==
    [][impl = "simple_ws_client"
         => /\ (connected' /\ ~connected) => mainpc = "start"
            /\ MessageWritten => ClientOpen
      ]_vars

(***************************************************************************)
(* C23: disconnect() writes a Close frame only on a connection that is     *)
(* still OPEN, and releases the socket.  When interactive_mode is about to *)
(* call disconnect() on a connection that has left OPEN (the receive       *)
(* thread's loop has ended), no Close frame is ever written on it; and     *)
(* once disconnect() has returned, at most one Close frame was written and *)
(* the socket has been closed, exactly once.                               *)
(* disconnect() writes its Close frame whatever the state, so this fails.  *)
(***************************************************************************)
\* The send calls on c1 that wrote a Close frame.
CloseWrites ==
    { i \in DOMAIN out["c1"] :
        /\ out["c1"][i].kind = "frame"
        /\ out["c1"][i].bytes[1] = 128 + WS_OPCODE_CLOSE }

C23_CloseOnlyIfOpen ==
    /\ []( (impl = "simple_ws_client" /\ mainpc = "disconnect" /\ ~ClientOpen)
            => [](CloseWrites = {}) )
    /\ []( (impl = "simple_ws_client" /\ DisconnectReturned)
            => /\ Cardinality(CloseWrites) <= 1
               /\ closeCount["c1"] = 1 )

(***************************************************************************)
(* C24: the registry is changed under mutual exclusion.  At most one       *)
(* thread at a time is inside an operation on the live-connection set,     *)
(* that is between its read of the set and the write that depends on it:   *)
(* a handler between its membership test and its remove, stop_server       *)
(* between its copy of the list and its clear.  (WebSocketServer's add and *)
(* discard each run whole under client_lock and are single steps here.)    *)
(* SimpleWebSocketServer takes no lock around self.clients, so this fails. *)
(***************************************************************************)
\* The threads that are inside an operation on the registry.
InRegistryOp ==
    { c \in Conns : pc[c] = "finally_remove" }
    \cup (IF stoppc = "closing" THEN {"stop_server"} ELSE {})

C24_RegistryMutex ==
    impl \in Servers => Cardinality(InRegistryOp) <= 1

(***************************************************************************)
(* C25: the registry holds no connection twice, and unregistering is       *)
(* idempotent: the list of registered entries is as long as the set of     *)
(* registered connections is large, and a handler's unregister step for a  *)
(* connection that is not registered (after a failed handshake, or after   *)
(* it was removed already) leaves the registry as it was and raises no     *)
(* error.                                                                  *)
(* self.clients.remove raises ValueError for a socket that stop_server     *)
(* cleared after the handler's membership test, so this fails.             *)
(***************************************************************************)
\* The handler of c takes a step of its unregister operation.
UnregisterStep(c) ==
    /\ pc[c] \in {"unregister", "finally_test", "finally_remove"}
    /\ pc'[c] # pc[c]

C25_RegistryIdempotent ==
    [][(impl \in Servers)
         => /\ Len(clients') = Cardinality({ clients'[i] : i \in DOMAIN clients' })
            /\ \A c \in Conns :
                 (UnregisterStep(c) /\ c \notin Registry)
                 => (Registry' = Registry /\ pc'[c] # "raised")
      ]_vars

(***************************************************************************)
(* The branch of the handler's if/elif chain that a decoded opcode takes.  *)
(* WebSocketServer's chain ends in an else that logs "Unknown opcode       *)
(* received"; SimpleWebSocketServer's chain has no else.                   *)
(***************************************************************************)
WS_dispatch_branch(opcode) ==
    IF opcode = WS_OPCODE_TEXT THEN "text"
    ELSE IF opcode = WS_OPCODE_BINARY THEN "binary"
    ELSE IF opcode = WS_OPCODE_PING THEN "ping"
    ELSE IF opcode = WS_OPCODE_PONG THEN "pong"
    ELSE IF opcode = WS_OPCODE_CLOSE THEN "close"
    ELSE "unknown"

SS_dispatch_branch(opcode) ==
    IF opcode = 1 THEN "text"
    ELSE IF opcode = 2 THEN "binary"
    ELSE IF opcode = 8 THEN "close"
    ELSE IF opcode = 9 THEN "ping"
    ELSE IF opcode = 10 THEN "pong"
    ELSE "none"

DispatchBranch(opcode) ==
    IF impl = "WS_Server" THEN WS_dispatch_branch(opcode)
    ELSE SS_dispatch_branch(opcode)

(***************************************************************************)
(* C26: a whole frame with an unknown opcode, read from its first byte,    *)
(* is decoded (the decoder returns that opcode and the frame's payload,    *)
(* not None) and its opcode takes a branch of the dispatch that is the     *)
(* branch of no known opcode and does something: it is not ignored.        *)
(* SimpleWebSocketServer's dispatch has no branch for it, so this fails.   *)
(***************************************************************************)
KnownBranches == { DispatchBranch(op) : op \in KnownOpcodes }

C26_UnknownOpcodeClassified ==
    [][\A c \in Conns :
         ( /\ impl \in Servers
           /\ IsRead(c) /\ consumed[c] = 0
           /\ ReadLen(c) >= Len(Head(pending[c]).bytes)
           /\ Head(pending[c]).opcode \notin KnownOpcodes )
         => /\ ndisp'[c] = ndisp[c] + 1
            /\ last'[c].opcode = Head(pending[c]).opcode
            /\ last'[c].payload = Head(pending[c]).payload
            /\ DispatchBranch(last'[c].opcode) \notin KnownBranches \cup {"none"}
      ]_vars

(***************************************************************************)
(* C27: the length encoding rule.  Either encoder writes a payload length  *)
(* n below 126 in the 7 low bits of the second byte; writes 126 there,     *)
(* followed by n as 2 big-endian bytes, when 126 <= n < 65536; and writes  *)
(* 127, followed by n as 8 big-endian bytes, otherwise.  Every decoder     *)
(* given the whole frame returns a payload of exactly n bytes.  Lengths    *)
(* 125, 126, 65535 and 65536 are among those checked.                      *)
(***************************************************************************)
\* Byte i (0 the least significant) of n.
ByteOf(n, i) ==
    LET RECURSIVE Shift(_, _)
        Shift(v, k) == IF k = 0 THEN v ELSE Shift(v \div 256, k - 1)
    IN  Shift(n, i) % 256

C27_LengthEncoding ==
    LET n == Len(codec.payload)
        w == codec.wire
    IN  /\ (codec.at = "wire" /\ ~codec.cut)
            => IF n < 126 THEN w[2] % 128 = n
               ELSE IF n < 65536
               THEN /\ w[2] % 128 = 126
                    /\ w[3] = ByteOf(n, 1) /\ w[4] = ByteOf(n, 0)
               ELSE /\ w[2] % 128 = 127
                    /\ \A i \in 0..7 : w[10 - i] = ByteOf(n, i)
        /\ (codec.at = "result" /\ ~codec.cut)
            => /\ codec.result.opcode # None
               /\ Len(codec.result.payload) = n

\* A payload of 126 bytes, the first length of the 16-bit form, went
\* through an encoder and a decoder.
C27_Witness ==
    /\ codec.at = "result" /\ ~codec.cut
    /\ Len(codec.payload) = 126
    /\ codec.wire[2] % 128 = 126
    /\ Len(codec.result.payload) = 126

(***************************************************************************)
(* C28: the client rejects a masked frame.  When the bytes given to        *)
(* SimpleWebSocketClient.decode_frame have the mask bit set, the decoder   *)
(* returns no frame, so that receive_messages delivers no payload (and in  *)
(* particular not the key bytes or the still-masked bytes).                *)
(* decode_frame reads the mask bit and never uses it, so this fails.       *)
(***************************************************************************)
C28_MaskedFrameRejected ==
    ( /\ codec.at = "result"
      /\ codec.dec = "client_decode_frame"
      /\ Len(codec.wire) >= 2
      /\ codec.wire[2] >= 128 )
    => codec.result.opcode = None

(***************************************************************************)
(* C29: in SimpleWebSocketServer a handler's finally block completes       *)
(* whatever stop_server does meanwhile: its remove never raises, and a     *)
(* handler that has ended has called client_socket.close().                *)
(* stop_server can clear self.clients between the handler's membership     *)
(* test and its remove, which then raises ValueError, so this fails.       *)
(***************************************************************************)
C29_FinallyCompletes ==
    \A c \in Conns :
        impl = "simple_ws_server"
        => /\ pc[c] # "raised"
           /\ pc[c] = "done" => closeCount[c] >= 1

(***************************************************************************)
(* src/JsonReader.py: connect_to_server and read_json, called one after    *)
(* the other by a single thread.  Sockets are numbered as they are         *)
(* created.                                                                *)
(***************************************************************************)
hubVars == <<impl, live, peer, codec, running, listening, pc, req, nokey,
             readVars, out, closeCount, wired, connected_clients, clients,
             stopVars, clientVars>>

JsonInit ==
    /\ impl = "JsonReader"
    /\ live = {}
    /\ peer = "any"
    /\ codec = CodecOff
    /\ json = JsonState("idle", None, 0, {}, {}, "", 0)
    /\ relay = RelayOff
    /\ running = FALSE
    /\ listening = FALSE
    /\ pc = [c \in Conns |-> "idle"]
    /\ req = [c \in Conns |-> NoRequest]
    /\ nokey = [c \in Conns |-> FALSE]
    /\ pending = [c \in Conns |-> <<>>]
    /\ consumed = [c \in Conns |-> 0]
    /\ rdpos = [c \in Conns |-> 0]
    /\ last = [c \in Conns |-> NoDispatch]
    /\ ndisp = [c \in Conns |-> 0]
    /\ out = [c \in Conns |-> <<>>]
    /\ closeCount = [c \in Conns |-> 0]
    /\ wired = 0
    /\ connected_clients = {}
    /\ clients = <<>>
    /\ stoppc = "idle"
    /\ snapshot = <<>>
    /\ stopCalls = 0
    /\ connected = FALSE
    /\ mainpc = "start"

\* read_json() is called.
JR_read_json ==
    /\ json.at = "idle"
    /\ json.calls < MaxCalls
    /\ json' = [json EXCEPT !.at = "connect", !.calls = @ + 1, !.ret = ""]
    /\ UNCHANGED <<hubVars, relay>>

\* connect_to_server(): if sock is None a socket is created and connected;
\* when that raises, sock is set back to None (the socket object is dropped
\* and its descriptor released with it) and read_json returns None.
JR_connect_to_server(ok) ==
    /\ json.at = "connect"
    /\ json.sock # None => ok
    /\ json' =
         IF json.sock # None THEN [json EXCEPT !.at = "send"]
         ELSE IF ok
         THEN [json EXCEPT !.at = "send",
                           !.sock = json.created + 1,
                           !.created = @ + 1,
                           !.open = @ \cup {json.created + 1}]
         ELSE [json EXCEPT !.at = "idle",
                           !.sock = None,
                           !.created = @ + 1,
                           !.ret = "connect_failed"]
    /\ UNCHANGED <<hubVars, relay>>

\* sock.send(message.encode('utf-8')); an exception goes to the except clause.
JR_send(ok) ==
    /\ json.at = "send"
    /\ json' = IF ok THEN [json EXCEPT !.at = "recv"]
               ELSE [json EXCEPT !.at = "except", !.dead = @ \cup {json.sock}]
    /\ UNCHANGED <<hubVars, relay>>

\* data = sock.recv(1024): JSON text is parsed and returned; text that does
\* not parse raises; no data (the peer closed) returns None at once; an
\* exception goes to the except clause.  A connection that has failed or
\* was closed by the peer yields no more data.
JR_recv(r) ==
    /\ json.at = "recv"
    /\ json.sock \in json.dead => r \in {"eof", "error"}
    /\ json' =
         IF r = "json" THEN [json EXCEPT !.at = "idle", !.ret = "data"]
         ELSE IF r = "garbage" THEN [json EXCEPT !.at = "except"]
         ELSE IF r = "eof"
         THEN [json EXCEPT !.at = "idle", !.ret = "eof",
                           !.dead = @ \cup {json.sock}]
         ELSE [json EXCEPT !.at = "except", !.dead = @ \cup {json.sock}]
    /\ UNCHANGED <<hubVars, relay>>

\* except Exception: if sock: sock.close(); sock = None; return None
JR_except ==
    /\ json.at = "except"
    /\ json' = [json EXCEPT !.at = "idle",
                            !.open = @ \ {json.sock},
                            !.sock = None,
                            !.ret = "error"]
    /\ UNCHANGED <<hubVars, relay>>

JsonNext ==
    \/ JR_read_json
    \/ \E ok \in BOOLEAN : JR_connect_to_server(ok)
    \/ \E ok \in BOOLEAN : JR_send(ok)
    \/ \E r \in {"json", "garbage", "eof", "error"} : JR_recv(r)
    \/ JR_except

JsonSpec == JsonInit /\ [][JsonNext]_vars

(***************************************************************************)
(* C30: JsonReader keeps at most one connection and never uses a dead one. *)
(* At most one socket is open at a time; send and recv are never called on *)
(* a socket whose connection failed or was closed by the peer; when        *)
(* read_json has returned None for a transport failure (an exception in    *)
(* send, recv or parsing, or recv returning no data) the socket has been   *)
(* closed and sock is None; and after a failed connect sock is None and no *)
(* socket is open.                                                         *)
(* read_json returns None on an empty recv without closing or resetting    *)
(* sock, so this fails.                                                    *)
(***************************************************************************)
C30_NoDeadConnection ==
    impl = "JsonReader"
    => /\ Cardinality(json.open) <= 1
       /\ json.at \in {"send", "recv"} => json.sock \notin json.dead
       /\ (json.at = "idle" /\ json.ret \in {"eof", "error", "connect_failed"})
            => /\ json.sock = None
               /\ json.open = {}

(***************************************************************************)
(* src/pic_transfer.py: camera_thread and the generate_frames generators,  *)
(* one per viewer of /video_feed, which the threaded server runs in a      *)
(* thread each.  lock is a threading.Lock.                                 *)
(***************************************************************************)
RelayInit ==
    /\ impl = "pic_transfer"
    /\ live = {}
    /\ peer = "any"
    /\ codec = CodecOff
    /\ json = JsonOff
    /\ relay = RelayState(0, "free", "read", [v \in Viewers |-> "idle"],
                          [v \in Viewers |-> 0])
    /\ running = FALSE
    /\ listening = FALSE
    /\ pc = [c \in Conns |-> "idle"]
    /\ req = [c \in Conns |-> NoRequest]
    /\ nokey = [c \in Conns |-> FALSE]
    /\ pending = [c \in Conns |-> <<>>]
    /\ consumed = [c \in Conns |-> 0]
    /\ rdpos = [c \in Conns |-> 0]
    /\ last = [c \in Conns |-> NoDispatch]
    /\ ndisp = [c \in Conns |-> 0]
    /\ out = [c \in Conns |-> <<>>]
    /\ closeCount = [c \in Conns |-> 0]
    /\ wired = 0
    /\ connected_clients = {}
    /\ clients = <<>>
    /\ stoppc = "idle"
    /\ snapshot = <<>>
    /\ stopCalls = 0
    /\ connected = FALSE
    /\ mainpc = "start"

\* camera_thread: ret, img = cap.read(); if ret: ... else straight to sleep.
CAM_read(ret) ==
    /\ relay.cam = "read"
    /\ relay.frame < MaxFrames
    /\ relay' = [relay EXCEPT !.cam = IF ret THEN "acquire" ELSE "sleep"]
    /\ UNCHANGED <<hubVars, json>>

\* camera_thread: with lock: (blocks until the lock is free)
CAM_acquire ==
    /\ relay.cam = "acquire"
    /\ relay.lock = "free"
    /\ relay' = [relay EXCEPT !.cam = "copy", !.lock = "camera"]
    /\ UNCHANGED <<hubVars, json>>

\* camera_thread: frame = img.copy(), and the with block is left.
CAM_publish ==
    /\ relay.cam = "copy"
    /\ relay' = [relay EXCEPT !.cam = "sleep", !.frame = @ + 1, !.lock = "free"]
    /\ UNCHANGED <<hubVars, json>>

\* camera_thread: time.sleep(0.033), back to the loop test.
CAM_sleep ==
    /\ relay.cam = "sleep"
    /\ relay' = [relay EXCEPT !.cam = "read"]
    /\ UNCHANGED <<hubVars, json>>

\* A viewer requests /video_feed: the server starts iterating
\* generate_frames().
GEN_start(v) ==
    /\ relay.gen[v] = "idle"
    /\ relay' = [relay EXCEPT !.gen[v] = "top"]
    /\ UNCHANGED <<hubVars, json>>

\* generate_frames: with lock: (blocks until the lock is free)
GEN_acquire(v) ==
    /\ relay.gen[v] = "top"
    /\ relay.lock = "free"
    /\ relay' = [relay EXCEPT !.gen[v] = "locked", !.lock = v]
    /\ UNCHANGED <<hubVars, json>>

\* generate_frames: if frame is not None: jpeg_data = bgr8_to_jpeg(frame);
\* yield (...) suspends the generator inside the with block.  With frame
\* None the with block is left at once.
GEN_encode(v) ==
    /\ relay.gen[v] = "locked"
    /\ relay' = IF relay.frame = 0
                THEN [relay EXCEPT !.gen[v] = "sleep", !.lock = "free"]
                ELSE [relay EXCEPT !.gen[v] = "yield", !.jpeg[v] = relay.frame]
    /\ UNCHANGED <<hubVars, json>>

\* The server has written the chunk to the viewer and asks for the next
\* one: the generator resumes after the yield and leaves the with block.
GEN_resume(v) ==
    /\ relay.gen[v] = "yield"
    /\ relay' = [relay EXCEPT !.gen[v] = "sleep",
                              !.lock = IF @ = v THEN "free" ELSE @]
    /\ UNCHANGED <<hubVars, json>>

\* The viewer went away: the server closes the generator, GeneratorExit is
\* raised at the yield and the with block is left.
GEN_close(v) ==
    /\ relay.gen[v] = "yield"
    /\ relay' = [relay EXCEPT !.gen[v] = "closed",
                              !.lock = IF @ = v THEN "free" ELSE @]
    /\ UNCHANGED <<hubVars, json>>

\* generate_frames: time.sleep(0.033), back to while True.
GEN_sleep(v) ==
    /\ relay.gen[v] = "sleep"
    /\ relay' = [relay EXCEPT !.gen[v] = "top"]
    /\ UNCHANGED <<hubVars, json>>

RelayNext ==
    \/ \E ret \in BOOLEAN : CAM_read(ret)
    \/ CAM_acquire
    \/ CAM_publish
    \/ CAM_sleep
    \/ \E v \in Viewers : GEN_start(v)
    \/ \E v \in Viewers : GEN_acquire(v)
    \/ \E v \in Viewers : GEN_encode(v)
    \/ \E v \in Viewers : GEN_resume(v)
    \/ \E v \in Viewers : GEN_close(v)
    \/ \E v \in Viewers : GEN_sleep(v)

RelaySpec == RelayInit /\ [][RelayNext]_vars

(***************************************************************************)
(* C31: in the video relay no generator holds the frame lock while it is   *)
(* suspended at its yield, that is while its chunk is being written to the *)
(* viewer; so whenever a generator is suspended there, camera_thread and   *)
(* the other generators can still take the lock.                           *)
(* The yield is inside the with lock block, so this fails.                 *)
(***************************************************************************)
C31_LockNotHeldAtYield ==
    \A v \in Viewers :
        (impl = "pic_transfer" /\ relay.gen[v] = "yield")
        => /\ relay.lock # v
           /\ relay.cam = "acquire" => ENABLED CAM_acquire
           /\ \A u \in Viewers \ {v} :
                relay.gen[u] = "top" => ENABLED GEN_acquire(u)

=============================================================================
